---- MODULE Spec2Model ----
(***************************************************************************)
(* Labonair connectivity core: the host registry (HostService), its group  *)
(* table and the group-default resolver (getEffectiveConfig).              *)
(*                                                                         *)
(* The repository holds several implementations of the host registry:      *)
(*   "workbench"  src/src/vs/workbench/contrib/labonair/browser/           *)
(*                sshConfigService.ts, class HostService (lines 68-473)    *)
(*   "extension"  src/extensions/labonair-connectivity/src/hostService.ts  *)
(*   "simple"     src/unnamed/part_015 (saveHost / deleteHost over the     *)
(*                global state array)                                      *)
(* The variable `variant` says which one a behaviour runs.  The host and   *)
(* group operations of the workbench and the extension class are the same  *)
(* statements; the two differ in getEffectiveConfig.                       *)
(*                                                                         *)
(* A JavaScript object is a function whose DOMAIN is its set of own keys,  *)
(* so an absent optional field is a key that is not in the DOMAIN.         *)
(* A JavaScript Map is a sequence of [k, v] entries in insertion order.    *)
(***************************************************************************)
EXTENDS Integers, Sequences, FiniteSets, TLC

VARIABLES
    variant,      \* which implementation of the registry runs
    hosts,        \* HostService._hosts : Map<string, IHost>
    groups,       \* HostService._groups : Map<string, IHostGroup>
    hostStatus,   \* HostService._hostStatus : Map<string, HostStatus>
    secrets,      \* the secret store collaborator: key -> value
    storedHosts,  \* persistent store, key 'labonair.hosts' (the JSON array)
    storedGroups, \* persistent store, key 'labonair.groups' (the JSON array)
    call,         \* the registry call in flight, or the last one that ended
    fired,        \* the change notifications emitted by the last step
    writeFailures,  \* how many writes to the persistent store have failed
    secretFailures, \* how many secret store operations have been rejected
    identities,       \* IdentityService._identities : Map<string, IIdentity>
    storedIdentities, \* persistent store, key 'labonair.identities'
    refreshes,    \* the refreshStatus calls: slot -> position and probe
    sweep,        \* the background ping (_pingAllHosts): position and probe
    timers        \* the timers of the background ping, and whether dispose ran

\* the state of the identity registry
identityVars == <<identities, storedIdentities>>

\* the state of the liveness prober
proberVars == <<refreshes, sweep, timers>>

vars == <<variant, hosts, groups, hostStatus, secrets, storedHosts,
          storedGroups, call, fired, writeFailures, secretFailures,
          identityVars, proberVars>>

-----------------------------------------------------------------------------
(* Bounds *)

\* host ids are 1..NumIds; both caller-chosen ids and generated ones
NumIds == 2

Ids == 1..NumIds

\* how many writes to the persistent store may fail in one behaviour
MaxWriteFailures == 1

\* how many writes or deletes of the secret store may be rejected in one
\* behaviour
MaxSecretFailures == 1

\* how many refreshStatus calls may be in flight at once
MaxRefreshCalls == 2

Variants == {"workbench", "extension", "simple"}

Names == {"web1", "x"}

GroupNames == {"g"}

-----------------------------------------------------------------------------
(* JavaScript objects and Maps *)

\* o.k on an object: TRUE when the key is an own key of o
Has(o, k) == k \in DOMAIN o

\* { ...a, ...b }
Spread(a, b) ==
    [k \in (DOMAIN a) \cup (DOMAIN b) |-> IF k \in DOMAIN b THEN b[k] ELSE a[k]]

\* o with o.k = v assigned
Assign(o, k, v) ==
    [j \in (DOMAIN o) \cup {k} |-> IF j = k THEN v ELSE o[j]]

MapKeys(m) == {m[i].k : i \in 1..Len(m)}

MapHas(m, key) == key \in MapKeys(m)

MapIndex(m, key) == CHOOSE i \in 1..Len(m) : m[i].k = key

MapGet(m, key) == m[MapIndex(m, key)].v

\* Map.set: an existing key keeps its position, a new key is appended
MapSet(m, key, val) ==
    IF MapHas(m, key)
    THEN [m EXCEPT ![MapIndex(m, key)] = [k |-> key, v |-> val]]
    ELSE Append(m, [k |-> key, v |-> val])

MapDeleteKeeps(m, key) == m

MapDelete(m, key) ==
    IF MapHas(m, key)
    THEN LET i == MapIndex(m, key)
         IN  SubSeq(m, 1, i - 1) \o SubSeq(m, i + 1, Len(m))
    ELSE m

\* Array.from(map.values())
MapValues(m) == [i \in 1..Len(m) |-> m[i].v]

\* _hostStatus.set(id, status) and _hostStatus.delete(id); the order of this
\* Map is never read, so it is a function from the ids it holds
StatusSet(m, id, st) ==
    [j \in (DOMAIN m) \cup {id} |-> IF j = id THEN st ELSE m[j]]

StatusDelete(m, id) == [j \in (DOMAIN m) \ {id} |-> m[j]]

\* the empty object {} and the empty Map of statuses or secrets
EmptyObj == [j \in {} |-> 0]

-----------------------------------------------------------------------------
(* Collaborators *)

\* `${SECRET_KEY_PREFIX}${id}` with SECRET_KEY_PREFIX = 'labonair.host.secret.'
SecretKey(id) == <<"labonair.host.secret.", id>>

\* `pwd.${id}` of the simple registry
PwdKey(id) == <<"pwd.", id>>

\* secretStorage.set(key, value) / context.secrets.store(key, value)
SecretSet(s, key, val) ==
    [j \in (DOMAIN s) \cup {key} |-> IF j = key THEN val ELSE s[j]]

\* secretStorage.delete(key): deleting an absent key is not an error
SecretDelete(s, key) == [j \in (DOMAIN s) \ {key} |-> s[j]]

\* Date.now()
DateNow == 7

\* JSON.stringify(Array.from(this._hosts.values())): the array of the
\* records in Map order; the Map's keys are not written
HostsJson(m) == MapValues(m)

\* _loadHosts: JSON.parse, then hosts.forEach(h => _hosts.set(h.id, h))
RECURSIVE LoadHostsFrom(_, _)
LoadHostsFrom(arr, m) ==
    IF arr = << >> THEN m
    ELSE LoadHostsFrom(Tail(arr), MapSet(m, Head(arr).id, Head(arr)))

LoadHosts(arr) == LoadHostsFrom(arr, << >>)

\* _loadHosts: _hostStatus.set(h.id, h.status || 'unknown')
LoadStatus(arr) ==
    [i \in {arr[j].id : j \in 1..Len(arr)} |->
        LET last == CHOOSE j \in 1..Len(arr) :
                        /\ arr[j].id = i
                        /\ \A n \in 1..Len(arr) : arr[n].id = i => n <= j
        IN  IF Has(arr[last], "status") THEN arr[last].status ELSE "unknown"]

\* JSON.stringify(Array.from(this._groups.values()))
GroupsJson(m) == MapValues(m)

\* SSHConfigService.getSystemHosts of the browser implementation
SystemHosts == << >>

-----------------------------------------------------------------------------
(* Inputs of the registry operations *)

BaseConnection ==
    [host |-> "10.0.0.5", port |-> 22, username |-> "root",
     osIcon |-> "linux", protocol |-> "ssh"]

\* the host objects passed to addHost: id and created are optional.  A password
\* host comes without a creation time, a key host with one.
HostInputs ==
    LET core == {[name |-> "web1", connection |-> BaseConnection,
                  auth |-> [type |-> "password"]],
                 [name |-> "web1", connection |-> BaseConnection,
                  auth |-> [type |-> "key"], created |-> 5]}
    IN  core \cup {Assign(h, "id", i) : h \in core, i \in Ids}

\* the Partial<IHost> objects passed to updateHost
HostUpdates == {[name |-> "x"]} \cup {[id |-> i] : i \in Ids}

\* group.defaults, a Partial<IHost>: each of connection, auth and tags is optional
GroupDefaults ==
    LET conns == {EmptyObj, [connection |-> [port |-> 2222]],
                  [connection |-> [username |-> "admin"]]}
        auths == {EmptyObj, [auth |-> [type |-> "key"]],
                  [auth |-> [type |-> "identity_ref", identityId |-> "id2"]]}
        tagss == {EmptyObj, [tags |-> <<"prod">>]}
    IN  {Spread(Spread(c, a), t) : c \in conns, a \in auths, t \in tagss}

\* the group objects passed to addGroup: defaults is optional
GroupInputs ==
    {[name |-> g] : g \in GroupNames}
        \cup {[name |-> g, defaults |-> d] : g \in GroupNames, d \in GroupDefaults}

\* the Partial<IHostGroup> objects passed to updateGroup
GroupUpdates == {[defaults |-> d] : d \in GroupDefaults}

\* the host objects passed to getEffectiveConfig: group and tags are optional,
\* and a connection read from stored or imported data may lack its port
ResolverHosts ==
    LET conns == {BaseConnection,
                  [host |-> "10.0.0.5", username |-> "root", osIcon |-> "linux",
                   protocol |-> "ssh"]}
        auths == {[type |-> "password"], [type |-> "key"],
                  [type |-> "password", identityId |-> "id1"],
                  [type |-> "identity_ref", identityId |-> "id1"]}
        tagss == {EmptyObj, [tags |-> <<"web">>], [tags |-> <<"prod">>],
                  [tags |-> <<"web", "prod">>]}
        grps  == {EmptyObj} \cup {[group |-> g] : g \in GroupNames}
    IN  {Spread(Spread([id |-> 1, name |-> "web1", connection |-> c, auth |-> a],
                       t), g) :
            c \in conns, a \in auths, t \in tagss, g \in grps}

-----------------------------------------------------------------------------
(* The registry: workbench and extension implementations *)

Full == variant \in {"workbench", "extension"}

\* no registry call is in flight
Idle == call.pc = "idle"

\* the call has ended: resolved ("done", "noop", "unknown") or rejected
Ended == call.pc \in {"done", "noop", "unknown", "rejected"}

NoCall == [op |-> "none", pc |-> "idle", id |-> 0, arg |-> EmptyObj,
           generated |-> FALSE, saved |-> FALSE]

\* _saveHosts: the full array is written, then onDidChangeHosts fires; a
\* failing write is caught and logged, and nothing fires
SaveHosts(m, ok) ==
    /\ storedHosts' = IF ok THEN HostsJson(m) ELSE storedHosts
    /\ fired' = IF ok THEN <<"hostsChanged">> ELSE << >>
    /\ writeFailures' = IF ok THEN writeFailures ELSE writeFailures + 1

\* _saveGroups: the full array is written; no event fires
SaveGroups(m, ok) ==
    /\ storedGroups' = IF ok THEN GroupsJson(m) ELSE storedGroups
    /\ fired' = << >>
    /\ writeFailures' = IF ok THEN writeFailures ELSE writeFailures + 1

\* whether the next write to the persistent store fails
WriteFaults == IF writeFailures < MaxWriteFailures THEN {FALSE, TRUE} ELSE {FALSE}

\* whether the next operation of the secret store is rejected
SecretFaults == IF secretFailures < MaxSecretFailures THEN {FALSE, TRUE} ELSE {FALSE}

\* generateUuid / _generateUuid: every digit is drawn at random, and the
\* registry is not consulted
GenerateUuid == Ids

\* getHost(id)
GetHost(id) ==
    IF MapHas(hosts, id) THEN <<MapGet(hosts, id)>>
    ELSE SelectSeq(SystemHosts, LAMBDA h : h.id = id)

\* addHost: `if (!host.created) { host.created = Date.now(); }`
StampCreatedAlways(h) == Assign(h, "created", DateNow)

StampCreated(h) == IF ~Has(h, "created") THEN Assign(h, "created", DateNow) ELSE h

\* addHost: `await secrets.set(secretKey, '')`, the empty placeholder
AddPlaceholderSkipped(s, id) == s

AddPlaceholder(s, id) == SecretSet(s, SecretKey(id), "")

\* updateHost: `const updatedHost = { ...host, ...updates }`
MergeHostReplaces(host, updates) == updates

MergeHost(host, updates) == Spread(host, updates)

\* deleteHost: `await secrets.delete(secretKey)`
PurgeSecretSkipped(s, id) == s

PurgeSecret(s, id) == SecretDelete(s, SecretKey(id))

\* addHost up to its first await: the id and the creation time are assigned,
\* the host and its status are stored; a password host then waits for the
\* secret store, any other host is saved at once
AddHostBegin(h) ==
    /\ Full /\ Idle
    /\ \E u \in GenerateUuid :
         LET gen == ~Has(h, "id")
             h1 == IF gen THEN Assign(h, "id", u) ELSE h
             h2 == StampCreated(h1)
         IN  /\ hosts' = MapSet(hosts, h2.id, h2)
             /\ hostStatus' = StatusSet(hostStatus, h2.id, "unknown")
             /\ IF h2.auth.type = "password"
                THEN /\ call' = [op |-> "addHost", pc |-> "secret", id |-> h2.id,
                                 arg |-> h, generated |-> gen, saved |-> FALSE]
                     /\ fired' = << >>
                     /\ UNCHANGED <<storedHosts, writeFailures>>
                ELSE \E wf \in WriteFaults :
                     /\ call' = [op |-> "addHost", pc |-> "done", id |-> h2.id,
                                 arg |-> h, generated |-> gen, saved |-> ~wf]
                     /\ SaveHosts(hosts', ~wf)
    /\ UNCHANGED <<variant, identityVars, proberVars, groups, secrets, storedGroups, secretFailures>>

\* addHost after `await secrets.set(secretKey, '')`: the placeholder is
\* stored and the hosts are saved, or the rejection ends the call
AddHostSecret ==
    /\ Full /\ call.op = "addHost" /\ call.pc = "secret"
    /\ \E sf \in SecretFaults :
         IF ~sf
         THEN \E wf \in WriteFaults :
              /\ secrets' = AddPlaceholder(secrets, call.id)
              /\ SaveHosts(hosts, ~wf)
              /\ call' = [call EXCEPT !.pc = "done", !.saved = ~wf]
              /\ UNCHANGED secretFailures
         ELSE /\ secretFailures' = secretFailures + 1
              /\ call' = [call EXCEPT !.pc = "rejected"]
              /\ fired' = << >>
              /\ UNCHANGED <<secrets, storedHosts, writeFailures>>
    /\ UNCHANGED <<variant, identityVars, proberVars, hosts, groups, hostStatus, storedGroups>>

\* updateHost(id, updates): an unknown id is logged and nothing else happens;
\* otherwise { ...host, ...updates } replaces the record and the hosts are saved
UpdateHost(id, updates) ==
    /\ Full /\ Idle
    /\ IF ~MapHas(hosts, id)
       THEN /\ call' = [op |-> "updateHost", pc |-> "noop", id |-> id,
                        arg |-> updates, generated |-> FALSE, saved |-> FALSE]
            /\ fired' = << >>
            /\ UNCHANGED <<hosts, storedHosts, writeFailures>>
       ELSE \E wf \in WriteFaults :
            /\ hosts' = MapSet(hosts, id, MergeHost(MapGet(hosts, id), updates))
            /\ SaveHosts(hosts', ~wf)
            /\ call' = [op |-> "updateHost", pc |-> "done", id |-> id,
                        arg |-> updates, generated |-> FALSE, saved |-> ~wf]
    /\ UNCHANGED <<variant, identityVars, proberVars, groups, hostStatus, secrets, storedGroups, secretFailures>>

\* deleteHost(id) up to its await: an unknown id returns at once; otherwise
\* the record and its status are removed and the secret delete is awaited
DeleteHostBegin(id) ==
    /\ Full /\ Idle
    /\ IF ~MapHas(hosts, id)
       THEN /\ call' = [op |-> "deleteHost", pc |-> "noop", id |-> id,
                        arg |-> EmptyObj, generated |-> FALSE, saved |-> FALSE]
            /\ UNCHANGED <<hosts, hostStatus>>
       ELSE /\ hosts' = MapDelete(hosts, id)
            /\ hostStatus' = StatusDelete(hostStatus, id)
            /\ call' = [op |-> "deleteHost", pc |-> "secret", id |-> id,
                        arg |-> MapGet(hosts, id), generated |-> FALSE,
                        saved |-> FALSE]
    /\ fired' = << >>
    /\ UNCHANGED <<variant, identityVars, proberVars, groups, secrets, storedHosts, storedGroups,
                   writeFailures, secretFailures>>

\* deleteHost after `await secrets.delete(secretKey)`
DeleteHostSecret ==
    /\ Full /\ call.op = "deleteHost" /\ call.pc = "secret"
    /\ \E sf \in SecretFaults :
         IF ~sf
         THEN \E wf \in WriteFaults :
              /\ secrets' = PurgeSecret(secrets, call.id)
              /\ SaveHosts(hosts, ~wf)
              /\ call' = [call EXCEPT !.pc = "done", !.saved = ~wf]
              /\ UNCHANGED secretFailures
         ELSE /\ secretFailures' = secretFailures + 1
              /\ call' = [call EXCEPT !.pc = "rejected"]
              /\ fired' = << >>
              /\ UNCHANGED <<secrets, storedHosts, writeFailures>>
    /\ UNCHANGED <<variant, identityVars, proberVars, hosts, groups, hostStatus, storedGroups>>

\* addGroup(group)
AddGroup(g) ==
    /\ Full /\ Idle
    /\ \E wf \in WriteFaults :
         /\ groups' = MapSet(groups, g.name, g)
         /\ SaveGroups(groups', ~wf)
         /\ call' = [op |-> "addGroup", pc |-> "done", id |-> 0, arg |-> g,
                     generated |-> FALSE, saved |-> ~wf]
    /\ UNCHANGED <<variant, identityVars, proberVars, hosts, hostStatus, secrets, storedHosts, secretFailures>>

\* updateGroup(name, updates): an unknown name is logged and nothing else happens
UpdateGroup(name, updates) ==
    /\ Full /\ Idle
    /\ IF ~MapHas(groups, name)
       THEN /\ call' = [op |-> "updateGroup", pc |-> "noop", id |-> 0,
                        arg |-> [name |-> name], generated |-> FALSE,
                        saved |-> FALSE]
            /\ fired' = << >>
            /\ UNCHANGED <<groups, storedGroups, writeFailures>>
       ELSE \E wf \in WriteFaults :
            /\ groups' = MapSet(groups, name, Spread(MapGet(groups, name), updates))
            /\ SaveGroups(groups', ~wf)
            /\ call' = [op |-> "updateGroup", pc |-> "done", id |-> 0,
                        arg |-> [name |-> name], generated |-> FALSE,
                        saved |-> ~wf]
    /\ UNCHANGED <<variant, identityVars, proberVars, hosts, hostStatus, secrets, storedHosts, secretFailures>>

\* deleteGroup(name): the name is not looked up; the groups are saved whether
\* or not a group was removed
DeleteGroup(name) ==
    /\ Full /\ Idle
    /\ \E wf \in WriteFaults :
         /\ groups' = MapDelete(groups, name)
         /\ SaveGroups(groups', ~wf)
         /\ call' = [op |-> "deleteGroup",
                     pc |-> IF MapHas(groups, name) THEN "done" ELSE "unknown",
                     id |-> 0, arg |-> [name |-> name], generated |-> FALSE,
                     saved |-> ~wf]
    /\ UNCHANGED <<variant, identityVars, proberVars, hosts, hostStatus, secrets, storedHosts, secretFailures>>

-----------------------------------------------------------------------------
(* The registry: the simple implementation, whose records live in the      *)
(* persistent store alone                                                  *)

Simple == variant = "simple"

SimpleHosts ==
    {[id |-> i, name |-> n, group |-> "", username |-> "root",
      host |-> "10.0.0.5", port |-> 22, osIcon |-> "linux", tags |-> << >>] :
        i \in Ids, n \in Names}

\* the optional password of saveHost; '' stands for none
Passwords == {"", "pw"}

\* hosts.findIndex(h => h.id === id), 0 for -1
FindIndex(arr, id) ==
    IF \E i \in 1..Len(arr) : arr[i].id = id
    THEN CHOOSE i \in 1..Len(arr) :
            arr[i].id = id /\ \A j \in 1..(i - 1) : arr[j].id # id
    ELSE 0

\* saveHost(host, password) up to the end of `await globalState.update`
SaveHostBegin(h, password) ==
    /\ Simple /\ Idle
    /\ \E wf \in WriteFaults :
         LET index == FindIndex(storedHosts, h.id)
             arr == IF index # 0 THEN [storedHosts EXCEPT ![index] = h]
                    ELSE Append(storedHosts, h)
         IN  /\ storedHosts' = IF ~wf THEN arr ELSE storedHosts
             /\ writeFailures' = IF ~wf THEN writeFailures ELSE writeFailures + 1
             /\ call' = [op |-> "saveHost",
                         pc |-> IF wf THEN "rejected"
                                ELSE IF password # "" THEN "secret" ELSE "done",
                         id |-> h.id, arg |-> [password |-> password],
                         generated |-> FALSE, saved |-> ~wf]
    /\ fired' = << >>
    /\ UNCHANGED <<variant, identityVars, proberVars, hosts, groups, hostStatus, secrets, storedGroups,
                   secretFailures>>

\* saveHost after `await secrets.store(`pwd.${host.id}`, password)`
SaveHostSecret ==
    /\ Simple /\ call.op = "saveHost" /\ call.pc = "secret"
    /\ \E sf \in SecretFaults :
         /\ secrets' = IF ~sf THEN SecretSet(secrets, PwdKey(call.id), call.arg.password)
                       ELSE secrets
         /\ secretFailures' = IF ~sf THEN secretFailures ELSE secretFailures + 1
         /\ call' = [call EXCEPT !.pc = IF ~sf THEN "done" ELSE "rejected"]
    /\ fired' = << >>
    /\ UNCHANGED <<variant, identityVars, proberVars, hosts, groups, hostStatus, storedHosts, storedGroups,
                   writeFailures>>

\* deleteHost(id) of the simple registry up to the end of
\* `await globalState.update`: the array is filtered and written
SimpleDeleteBegin(id) ==
    /\ Simple /\ Idle
    /\ \E wf \in WriteFaults :
         /\ storedHosts' = IF ~wf THEN SelectSeq(storedHosts, LAMBDA h : h.id # id)
                           ELSE storedHosts
         /\ writeFailures' = IF ~wf THEN writeFailures ELSE writeFailures + 1
         /\ call' = [op |-> "deleteHost", pc |-> IF ~wf THEN "secret" ELSE "rejected",
                     id |-> id, arg |-> EmptyObj,
                     generated |-> FALSE, saved |-> ~wf]
    /\ fired' = << >>
    /\ UNCHANGED <<variant, identityVars, proberVars, hosts, groups, hostStatus, secrets, storedGroups,
                   secretFailures>>

\* deleteHost of the simple registry after `await secrets.delete(`pwd.${id}`)`
SimpleDeleteSecret ==
    /\ Simple /\ call.op = "deleteHost" /\ call.pc = "secret"
    /\ \E sf \in SecretFaults :
         /\ secrets' = IF ~sf THEN SecretDelete(secrets, PwdKey(call.id)) ELSE secrets
         /\ secretFailures' = IF ~sf THEN secretFailures ELSE secretFailures + 1
         /\ call' = [call EXCEPT !.pc = IF ~sf THEN "done" ELSE "rejected"]
    /\ fired' = << >>
    /\ UNCHANGED <<variant, identityVars, proberVars, hosts, groups, hostStatus, storedHosts, storedGroups,
                   writeFailures>>

-----------------------------------------------------------------------------
(* getEffectiveConfig: the group-default resolver.  Of the sub-objects it  *)
(* merges, connection, auth, tags and tunnels are modelled; advanced,      *)
(* terminal and sftp are merged by the same statements as connection and   *)
(* are read by no property below.                                          *)

\* the value of a missing property
Undefined == "undefined"

\* o.k for a string-valued property
Str(o, k) == IF Has(o, k) THEN o[k] ELSE Undefined

\* o.k for a number-valued property; undefined and 0 are both falsy, and no
\* expression below yields either as a number
Num(o, k) == IF Has(o, k) THEN o[k] ELSE 0

\* a || b on strings
OrStr(a, b) == IF a \notin {"", Undefined} THEN a ELSE b

\* a || b on numbers
OrNum(a, b) == IF a # 0 THEN a ELSE b

\* Array.from(new Set(list)): the first occurrence of every element, in order
RECURSIVE Dedupe(_, _)
Dedupe(list, acc) ==
    IF list = << >> THEN acc
    ELSE Dedupe(Tail(list),
                IF \E i \in 1..Len(acc) : acc[i] = Head(list) THEN acc
                ELSE Append(acc, Head(list)))

\* the extension's getEffectiveConfig, from `const effective = ...` on.
\* JSON.parse(JSON.stringify(host)) copies a record of strings, numbers and
\* arrays field by field: an absent field stays absent, so the copy is host
EffectiveExtension(host, d) ==
    LET e0 == host
        e1 == IF Has(d, "connection")
              THEN Assign(e0, "connection",
                     Spread(Spread(d.connection, host.connection),
                       [host |-> OrStr(Str(host.connection, "host"),
                                       Str(d.connection, "host")),
                        port |-> OrNum(OrNum(Num(host.connection, "port"),
                                             Num(d.connection, "port")), 22),
                        username |-> OrStr(OrStr(Str(host.connection, "username"),
                                                 Str(d.connection, "username")), "root"),
                        protocol |-> OrStr(OrStr(Str(host.connection, "protocol"),
                                                 Str(d.connection, "protocol")), "ssh"),
                        osIcon |-> OrStr(OrStr(Str(host.connection, "osIcon"),
                                               Str(d.connection, "osIcon")), "linux")]))
              ELSE e0
        e2 == IF /\ Has(d, "auth")
                 /\ Str(host.auth, "identityId") \in {"", Undefined}
                 /\ host.auth.type = "password"
              THEN Assign(e1, "auth", Spread(d.auth, host.auth))
              ELSE e1
        e3 == IF Has(d, "tags") /\ Has(host, "tags")
              THEN Assign(e2, "tags", Dedupe(d.tags \o host.tags, << >>))
              ELSE IF Has(d, "tags") THEN Assign(e2, "tags", d.tags)
              ELSE e2
        e4 == IF Has(d, "tunnels") /\ Has(host, "tunnels")
              THEN Assign(e3, "tunnels", d.tunnels \o host.tunnels)
              ELSE IF Has(d, "tunnels") THEN Assign(e3, "tunnels", d.tunnels)
              ELSE e3
    IN  e4

\* the workbench's getEffectiveConfig, from `const effective = ...` on
EffectiveWorkbench(host, d) ==
    LET e0 == host
        e1 == IF Has(d, "connection")
              THEN Assign(e0, "connection", Spread(d.connection, host.connection))
              ELSE e0
        e2 == IF /\ Has(d, "auth")
                 /\ Str(host.auth, "identityId") \in {"", Undefined}
              THEN Assign(e1, "auth", Spread(d.auth, host.auth))
              ELSE e1
    IN  e2

\* getEffectiveConfig(host) over the group table g of implementation v
GetEffectiveConfig(v, g, host) ==
    IF Str(host, "group") \in {"", Undefined} THEN host
    ELSE IF ~MapHas(g, host.group) THEN host
    ELSE IF ~Has(MapGet(g, host.group), "defaults") THEN host
    ELSE IF v = "extension"
         THEN EffectiveExtension(host, MapGet(g, host.group).defaults)
         ELSE EffectiveWorkbench(host, MapGet(g, host.group).defaults)

\* a caller resolves a host; the host and the result are kept in call.arg
Resolve(h) ==
    /\ Full /\ Idle
    /\ call' = [op |-> "getEffectiveConfig", pc |-> "done", id |-> 0,
                arg |-> [host |-> h,
                         result |-> GetEffectiveConfig(variant, groups, h)],
                generated |-> FALSE, saved |-> FALSE]
    /\ fired' = << >>
    /\ UNCHANGED <<variant, identityVars, proberVars, hosts, groups, hostStatus, secrets, storedHosts,
                   storedGroups, writeFailures, secretFailures>>

\* the object `effective` refers to: `{ ...host }` in the workbench and
\* JSON.parse(JSON.stringify(host)) in the extension make a new object; obj
\* holds its fields, fresh says that it is not the object host refers to
AliasHost(host) == [fresh |-> FALSE, obj |-> host]

CopyHost(host) == [fresh |-> TRUE, obj |-> host]

\* getEffectiveConfig(host) with the identity of the object it returns: the
\* early returns hand back host itself, the other path hands back effective
\* after the assignments to its properties
GetEffectiveRef(v, g, host) ==
    IF \/ Str(host, "group") \in {"", Undefined}
       \/ ~MapHas(g, host.group)
       \/ ~Has(MapGet(g, host.group), "defaults")
    THEN [fresh |-> FALSE, obj |-> host]
    ELSE [fresh |-> CopyHost(host).fresh, obj |-> GetEffectiveConfig(v, g, host)]

\* a caller resolves the record the registry holds under id (the object
\* getHost returns): assignments to the properties of effective land in the
\* stored record when effective is that record
ResolveStored(id) ==
    /\ Full /\ Idle
    /\ MapHas(hosts, id)
    /\ LET host == MapGet(hosts, id)
           res  == GetEffectiveRef(variant, groups, host)
       IN  /\ hosts' = IF res.fresh THEN hosts ELSE MapSet(hosts, id, res.obj)
           /\ call' = [op |-> "getEffectiveConfig", pc |-> "done", id |-> id,
                       arg |-> [host |-> host, result |-> res.obj,
                                fresh |-> res.fresh],
                       generated |-> FALSE, saved |-> FALSE]
    /\ fired' = << >>
    /\ UNCHANGED <<variant, identityVars, proberVars, groups, hostStatus, secrets, storedHosts,
                   storedGroups, writeFailures, secretFailures>>

-----------------------------------------------------------------------------
(* The liveness prober: refreshStatus, _pingHost and the background ping   *)
(* _pingAllHosts.  A call is split at its awaits: the await of _pingHost   *)
(* and, inside _pingHost, the await of each fetch.                         *)

Slots == 1..MaxRefreshCalls

\* the ids refreshStatus is called with: the registered ones and one more
ProbeIds == Ids \cup {NumIds + 1}

\* _hostStatus.get(id)
StatusGet(st, id) == IF id \in DOMAIN st THEN st[id] ELSE Undefined

\* a _pingHost call: pc is the fetch it awaits ("https", "http"), "resolved"
\* when it has returned result, "none" when there is no call
NoPing == [pc |-> "none", result |-> "none"]

\* _pingHost(host) up to its first await: a local or wsl host is online
\* without any fetch, any other host starts with the https fetch
PingStartAlwaysFetches(host) == [pc |-> "https", result |-> "none"]

PingStart(host) ==
    IF host.connection.protocol = "local" \/ host.connection.protocol = "wsl"
    THEN [pc |-> "resolved", result |-> "online"]
    ELSE [pc |-> "https", result |-> "none"]

\* the awaited fetch settles: fulfilled, _pingHost returns 'online'; rejected
\* (also by the abort after 5 s), the https fetch is followed by the http
\* fetch and the http fetch by `return 'unknown'`
PingStep(ping, ok) ==
    IF ok THEN [pc |-> "resolved", result |-> "online"]
    ELSE IF ping.pc = "https" THEN [pc |-> "http", result |-> "none"]
    ELSE [pc |-> "resolved", result |-> "unknown"]

\* whether a fetch is fulfilled
FetchOutcomes == {TRUE, FALSE}

\* _onDidChangeStatus.fire({ hostId, status })
FireStatus(id, status) == <<[hostId |-> id, status |-> status]>>

\* refreshStatus: `_onDidChangeStatus.fire({ hostId: id, status: 'connecting' })`
FireConnectingSkipped(id) == << >>

FireConnecting(id) == FireStatus(id, "connecting")

\* refreshStatus: `this._hostStatus.set(id, status)` after the probe
StoreResultSkipped(st, id, status) == st

StoreResult(st, id, status) == StatusSet(st, id, status)

\* a refreshStatus call: before is the cached status it found, pings counts
\* its calls of _pingHost
NoRefresh == [pc |-> "idle", id |-> 0, before |-> "none", pings |-> 0,
              ping |-> NoPing]

NoRefreshes == [r \in Slots |-> NoRefresh]

\* a _pingAllHosts call: queue is the rest of its snapshot, id the host it
\* probes, skipped the ids it has passed over
NoSweep == [pc |-> "idle", queue |-> << >>, id |-> 0, ping |-> NoPing,
            skipped |-> << >>]

\* refreshStatus(id) up to `await this._pingHost(host)`: an unknown id
\* returns at once; otherwise the status becomes connecting, the listeners
\* are told and _pingHost runs up to its first await
RefreshBegin(r, id) ==
    /\ Full /\ refreshes[r].pc = "idle"
    /\ IF ~MapHas(hosts, id)
       THEN /\ refreshes' = [refreshes EXCEPT ![r] =
                                [NoRefresh EXCEPT !.pc = "noop", !.id = id]]
            /\ fired' = << >>
            /\ UNCHANGED hostStatus
       ELSE /\ hostStatus' = StatusSet(hostStatus, id, "connecting")
            /\ fired' = FireConnecting(id)
            /\ refreshes' = [refreshes EXCEPT ![r] =
                                [pc |-> "probing", id |-> id,
                                 before |-> StatusGet(hostStatus, id),
                                 pings |-> 1,
                                 ping |-> PingStart(MapGet(hosts, id))]]
    /\ UNCHANGED <<variant, identityVars, timers, hosts, groups, secrets, storedHosts,
                   storedGroups, call, writeFailures, secretFailures, sweep>>

\* the fetch that the _pingHost call of refreshStatus awaits settles
RefreshFetch(r) ==
    /\ refreshes[r].pc = "probing"
    /\ refreshes[r].ping.pc \in {"https", "http"}
    /\ \E ok \in FetchOutcomes :
         refreshes' = [refreshes EXCEPT ![r].ping = PingStep(@, ok)]
    /\ fired' = << >>
    /\ UNCHANGED <<variant, identityVars, timers, hosts, groups, hostStatus, secrets,
                   storedHosts, storedGroups, call, writeFailures,
                   secretFailures, sweep>>

\* refreshStatus after `await this._pingHost(host)`: the result is stored
\* and the listeners are told
RefreshEnd(r) ==
    /\ refreshes[r].pc = "probing"
    /\ refreshes[r].ping.pc = "resolved"
    /\ hostStatus' = StoreResult(hostStatus, refreshes[r].id,
                                 refreshes[r].ping.result)
    /\ fired' = FireStatus(refreshes[r].id, refreshes[r].ping.result)
    /\ refreshes' = [refreshes EXCEPT ![r].pc = "done"]
    /\ UNCHANGED <<variant, identityVars, timers, hosts, groups, secrets, storedHosts,
                   storedGroups, call, writeFailures, secretFailures, sweep>>

\* the caller's await of refreshStatus ends
RefreshReturn(r) ==
    /\ refreshes[r].pc \in {"done", "noop"}
    /\ refreshes' = [refreshes EXCEPT ![r] = NoRefresh]
    /\ fired' = << >>
    /\ UNCHANGED <<variant, identityVars, timers, hosts, groups, hostStatus, secrets,
                   storedHosts, storedGroups, call, writeFailures,
                   secretFailures, sweep>>

\* _pingHost of the registry without background ping (variant "basic"):
\* a local or wsl host is online without any fetch, any other host starts
\* with its single http fetch
BasicPingStart(host) ==
    IF host.connection.protocol = "local" \/ host.connection.protocol = "wsl"
    THEN [pc |-> "resolved", result |-> "online"]
    ELSE [pc |-> "http", result |-> "none"]

\* the fetch of that _pingHost settles: fulfilled, it returns 'online';
\* rejected (also by the abort after 5 s), the catch returns 'offline'
BasicPingStep(ping, ok) ==
    IF ok THEN [pc |-> "resolved", result |-> "online"]
    ELSE [pc |-> "resolved", result |-> "offline"]

\* refreshStatus(id) of variant "basic" up to `await this._pingHost(host)`
BasicRefreshBegin(r, id) ==
    /\ variant = "basic" /\ refreshes[r].pc = "idle"
    /\ IF ~MapHas(hosts, id)
       THEN /\ refreshes' = [refreshes EXCEPT ![r] =
                                [NoRefresh EXCEPT !.pc = "noop", !.id = id]]
            /\ fired' = << >>
            /\ UNCHANGED hostStatus
       ELSE /\ hostStatus' = StatusSet(hostStatus, id, "connecting")
            /\ fired' = FireConnecting(id)
            /\ refreshes' = [refreshes EXCEPT ![r] =
                                [pc |-> "probing", id |-> id,
                                 before |-> StatusGet(hostStatus, id),
                                 pings |-> 1,
                                 ping |-> BasicPingStart(MapGet(hosts, id))]]
    /\ UNCHANGED <<variant, identityVars, timers, hosts, groups, secrets, storedHosts,
                   storedGroups, call, writeFailures, secretFailures, sweep>>

\* the fetch that the _pingHost call of that refreshStatus awaits settles
BasicRefreshFetch(r) ==
    /\ variant = "basic"
    /\ refreshes[r].pc = "probing"
    /\ refreshes[r].ping.pc = "http"
    /\ \E ok \in FetchOutcomes :
         refreshes' = [refreshes EXCEPT ![r].ping = BasicPingStep(@, ok)]
    /\ fired' = << >>
    /\ UNCHANGED <<variant, identityVars, timers, hosts, groups, hostStatus, secrets,
                   storedHosts, storedGroups, call, writeFailures,
                   secretFailures, sweep>>

\* _startBackgroundPing has run: the 60 s interval is set and the 5 s
\* timeout of the initial ping is pending
StartedTimers == [interval |-> TRUE, initial |-> TRUE, disposed |-> FALSE]

\* a registry that starts no background ping
NoTimers == [interval |-> FALSE, initial |-> FALSE, disposed |-> FALSE]

\* the interval timer calls _pingAllHosts: the hosts of this moment are the
\* ones the loop visits
SweepStart ==
    /\ Full /\ sweep.pc = "idle" /\ timers.interval
    /\ sweep' = [NoSweep EXCEPT !.pc = "loop", !.queue = MapValues(hosts)]
    /\ fired' = << >>
    /\ UNCHANGED <<variant, identityVars, timers, hosts, groups, hostStatus, secrets,
                   storedHosts, storedGroups, call, writeFailures,
                   secretFailures, refreshes>>

\* _pingAllHosts: `if (this._hostStatus.get(host.id) === 'connecting') continue`
SweepSkipsNever(st, host) == FALSE

SweepSkips(st, host) == StatusGet(st, host.id) = "connecting"

\* the 5 s timeout of _startBackgroundPing calls _pingAllHosts; no statement
\* clears this timeout
InitialSweepStart ==
    /\ Full /\ sweep.pc = "idle" /\ timers.initial
    /\ timers' = [timers EXCEPT !.initial = FALSE]
    /\ sweep' = [NoSweep EXCEPT !.pc = "loop", !.queue = MapValues(hosts)]
    /\ fired' = << >>
    /\ UNCHANGED <<variant, identityVars, hosts, groups, hostStatus, secrets,
                   storedHosts, storedGroups, call, writeFailures,
                   secretFailures, refreshes>>

\* dispose(): _stopBackgroundPing clears the interval; the emitters are
\* disposed
Dispose ==
    /\ Full /\ ~timers.disposed
    /\ timers' = [timers EXCEPT !.interval = FALSE, !.disposed = TRUE]
    /\ fired' = << >>
    /\ UNCHANGED <<variant, identityVars, hosts, groups, hostStatus, secrets,
                   storedHosts, storedGroups, call, writeFailures,
                   secretFailures, refreshes, sweep>>

\* the loop of _pingAllHosts takes its next host: a host whose status is
\* connecting is skipped, any other is pinged; after the last host the call ends
SweepNext ==
    /\ sweep.pc = "loop"
    /\ IF sweep.queue = << >>
       THEN sweep' = NoSweep
       ELSE LET host == Head(sweep.queue)
            IN  IF SweepSkips(hostStatus, host)
                THEN sweep' = [sweep EXCEPT !.queue = Tail(@),
                                            !.skipped = Append(@, host.id)]
                ELSE sweep' = [sweep EXCEPT !.pc = "probing",
                                            !.queue = Tail(@),
                                            !.id = host.id,
                                            !.ping = PingStart(host)]
    /\ fired' = << >>
    /\ UNCHANGED <<variant, identityVars, timers, hosts, groups, hostStatus, secrets,
                   storedHosts, storedGroups, call, writeFailures,
                   secretFailures, refreshes>>

\* the fetch that the _pingHost call of the loop awaits settles
SweepFetch ==
    /\ sweep.pc = "probing"
    /\ sweep.ping.pc \in {"https", "http"}
    /\ \E ok \in FetchOutcomes :
         sweep' = [sweep EXCEPT !.ping = PingStep(@, ok)]
    /\ fired' = << >>
    /\ UNCHANGED <<variant, identityVars, timers, hosts, groups, hostStatus, secrets,
                   storedHosts, storedGroups, call, writeFailures,
                   secretFailures, refreshes>>

\* _pingAllHosts: `if (status !== previousStatus)`
SweepChangedAlways(st, id, status) == TRUE

SweepChanged(st, id, status) == status # StatusGet(st, id)

\* the loop after `await this._pingHost(host)`: a result that differs from
\* the cached status is stored and the listeners are told
SweepEnd ==
    /\ sweep.pc = "probing"
    /\ sweep.ping.pc = "resolved"
    /\ IF SweepChanged(hostStatus, sweep.id, sweep.ping.result)
       THEN /\ hostStatus' = StatusSet(hostStatus, sweep.id, sweep.ping.result)
            /\ fired' = FireStatus(sweep.id, sweep.ping.result)
       ELSE /\ fired' = << >>
            /\ UNCHANGED hostStatus
    /\ sweep' = [sweep EXCEPT !.pc = "loop", !.id = 0, !.ping = NoPing]
    /\ UNCHANGED <<variant, identityVars, timers, hosts, groups, secrets, storedHosts,
                   storedGroups, call, writeFailures, secretFailures, refreshes>>

-----------------------------------------------------------------------------
(* importHosts and exportHosts *)

ImportSources == {"labonair", "ssh-config", "filezilla"}

\* a record of this system's own export format, with the id it was exported
\* under
ExportedHost(i, authType) ==
    [id |-> i, name |-> "web1", connection |-> BaseConnection,
     auth |-> [type |-> authType], created |-> 5]

\* the data passed to importHosts: text that JSON.parse rejects, or the
\* array JSON.parse returns
ImportData ==
    {"not json", <<ExportedHost(1, "key")>>,
     <<ExportedHost(1, "key"), ExportedHost(2, "password")>>}

\* parsed.map(host => ({ ...host, id: generateUuid(), created: Date.now() })),
\* ids[i] being the id generated for the i-th record
ImportedHosts(parsed, ids) ==
    [i \in 1..Len(parsed) |->
        Spread(parsed[i], [id |-> ids[i], created |-> DateNow])]

\* the hostIds passed to exportHosts
ExportIds == {<<i>> : i \in Ids} \cup {<<1, 2>>}

\* JSON.stringify(hosts, null, 2) of the registered hosts among hostIds: the
\* text of the array of those records, plain
ExportJson(hostIds) ==
    [format |-> "json",
     hosts |-> LET known == SelectSeq(hostIds, LAMBDA i : MapHas(hosts, i))
               IN  [n \in 1..Len(known) |-> MapGet(hosts, known[n])]]

\* a registry call that ends rejected with `new Error(message)`
Rejected(op, arg, message) ==
    [op |-> op, pc |-> "rejected", id |-> 0,
     arg |-> Assign(arg, "message", message),
     generated |-> FALSE, saved |-> FALSE]

\* importHosts(source, data) up to the loop that adds the hosts
ImportBegin(source, data) ==
    /\ Full /\ Idle
    /\ LET arg == [source |-> source, data |-> data]
           adding(list) ==
               [op |-> "importHosts", pc |-> "adding", id |-> 0,
                arg |-> [source |-> source, data |-> data, queue |-> list,
                         result |-> list],
                generated |-> FALSE, saved |-> FALSE]
       IN  IF source = "labonair"
           THEN IF data = "not json"
                THEN call' = Rejected("importHosts", arg,
                                      "Invalid Labonair import format")
                ELSE \E ids \in [1..Len(data) -> GenerateUuid] :
                        call' = adding(ImportedHosts(data, ids))
           ELSE IF source = "ssh-config" /\ variant = "workbench"
           THEN \E ids \in [1..Len(SystemHosts) -> GenerateUuid] :
                    call' = adding(ImportedHosts(SystemHosts, ids))
           ELSE IF source = "filezilla" /\ variant = "workbench"
           THEN call' = Rejected("importHosts", arg,
                                 "FileZilla import not yet implemented")
           ELSE call' = Rejected("importHosts", arg,
                                 <<source, " import not yet implemented">>)
    /\ fired' = << >>
    /\ UNCHANGED <<variant, identityVars, proberVars, hosts, groups, hostStatus,
                   secrets, storedHosts, storedGroups, writeFailures,
                   secretFailures>>

\* one turn of `for (const host of importedHosts) await this.addHost(host)`:
\* the whole addHost call for the next host; after the last host
\* importHosts returns importedHosts
ImportAdd ==
    /\ Full /\ call.op = "importHosts" /\ call.pc = "adding"
    /\ IF call.arg.queue = << >>
       THEN /\ call' = [call EXCEPT !.pc = "done"]
            /\ fired' = << >>
            /\ UNCHANGED <<hosts, hostStatus, secrets, storedHosts,
                           writeFailures, secretFailures>>
       ELSE LET h == StampCreated(Head(call.arg.queue))
                rest == [call EXCEPT !.arg.queue = Tail(@), !.id = h.id]
            IN  /\ hosts' = MapSet(hosts, h.id, h)
                /\ hostStatus' = StatusSet(hostStatus, h.id, "unknown")
                /\ \E sf \in SecretFaults :
                     IF h.auth.type = "password" /\ sf
                     THEN /\ secretFailures' = secretFailures + 1
                          /\ call' = [rest EXCEPT !.pc = "rejected"]
                          /\ fired' = << >>
                          /\ UNCHANGED <<secrets, storedHosts, writeFailures>>
                     ELSE \E wf \in WriteFaults :
                          /\ ~sf
                          /\ secrets' = IF h.auth.type = "password"
                                        THEN AddPlaceholder(secrets, h.id)
                                        ELSE secrets
                          /\ SaveHosts(hosts', ~wf)
                          /\ call' = rest
                          /\ UNCHANGED secretFailures
    /\ UNCHANGED <<variant, identityVars, proberVars, groups, storedGroups>>

\* exportHosts(hostIds, encrypt): encrypt is not read
ExportHosts(hostIds, encrypt) ==
    /\ Full /\ Idle
    /\ call' = [op |-> "exportHosts", pc |-> "done", id |-> 0,
                arg |-> [hostIds |-> hostIds, encrypt |-> encrypt,
                         result |-> ExportJson(hostIds)],
                generated |-> FALSE, saved |-> FALSE]
    /\ fired' = << >>
    /\ UNCHANGED <<variant, identityVars, proberVars, hosts, groups, hostStatus,
                   secrets, storedHosts, storedGroups, writeFailures,
                   secretFailures>>

-----------------------------------------------------------------------------
(* The identity registry (IdentityService), the same statements in the    *)
(* workbench and in the extension                                         *)

\* `${SECRET_KEY_PREFIX}${identity.id}` with SECRET_KEY_PREFIX = 'labonair.identity.'
IdentityKey(id) == <<"labonair.identity.", id>>

\* `${SECRET_PASSPHRASE_PREFIX}${identity.id}` with
\* SECRET_PASSPHRASE_PREFIX = 'labonair.identity.passphrase.'
PassphraseKey(id) == <<"labonair.identity.passphrase.", id>>

\* the identities passed to addIdentity, with and without an id
IdentityInputs ==
    {[name |-> "deploy", type |-> "ssh-key", createdAt |-> DateNow],
     [id |-> 1, name |-> "deploy", type |-> "ssh-key", createdAt |-> DateNow],
     [id |-> 2, name |-> "admin", type |-> "password", createdAt |-> DateNow]}

\* the updates passed to updateIdentity
IdentityUpdates == {[name |-> "renamed"], [id |-> 2]}

\* the private key text or the password
PrivateData == {"pem"}

\* the optional passphrase: left out, empty, or given
Passphrases == {Undefined, "", "phrase"}

\* `if (passphrase)`
Given(passphrase) == passphrase \notin {"", Undefined}

\* _saveIdentities: the full array is written, then onDidChangeIdentities
\* fires; a failing write is caught and logged, and nothing fires
SaveIdentities(m, ok) ==
    /\ storedIdentities' = IF ok THEN MapValues(m) ELSE storedIdentities
    /\ fired' = IF ok THEN <<"identitiesChanged">> ELSE << >>
    /\ writeFailures' = IF ok THEN writeFailures ELSE writeFailures + 1

\* addIdentity up to its first await: the id is assigned when the identity
\* carries none, and the identity is put into the map
AddIdentityBegin(identity, privateData, passphrase) ==
    /\ Full /\ Idle
    /\ \E u \in GenerateUuid :
         LET gen == ~Has(identity, "id")
             i1 == IF gen THEN Assign(identity, "id", u) ELSE identity
         IN  /\ identities' = MapSet(identities, i1.id, i1)
             /\ call' = [op |-> "addIdentity", pc |-> "key", id |-> i1.id,
                         arg |-> [identity |-> identity,
                                  privateData |-> privateData,
                                  passphrase |-> passphrase],
                         generated |-> gen, saved |-> FALSE]
    /\ fired' = << >>
    /\ UNCHANGED <<variant, proberVars, hosts, groups, hostStatus, secrets,
                   storedHosts, storedGroups, storedIdentities, writeFailures,
                   secretFailures>>

\* addIdentity after `await secrets.store(secretKey, privateData)`: with a
\* passphrase the second secret write is awaited, without one the
\* identities are saved; a rejection ends the call
AddIdentityKey ==
    /\ call.op = "addIdentity" /\ call.pc = "key"
    /\ \E sf \in SecretFaults :
         IF sf
         THEN /\ secretFailures' = secretFailures + 1
              /\ call' = [call EXCEPT !.pc = "rejected"]
              /\ fired' = << >>
              /\ UNCHANGED <<secrets, storedIdentities, writeFailures>>
         ELSE /\ secrets' = SecretSet(secrets, IdentityKey(call.id),
                                      call.arg.privateData)
              /\ UNCHANGED secretFailures
              /\ IF Given(call.arg.passphrase)
                 THEN /\ call' = [call EXCEPT !.pc = "passphrase"]
                      /\ fired' = << >>
                      /\ UNCHANGED <<storedIdentities, writeFailures>>
                 ELSE \E wf \in WriteFaults :
                      /\ SaveIdentities(identities, ~wf)
                      /\ call' = [call EXCEPT !.pc = "done", !.saved = ~wf]
    /\ UNCHANGED <<variant, proberVars, hosts, groups, hostStatus, storedHosts,
                   storedGroups, identities>>

\* addIdentity after `await secrets.store(passphraseKey, passphrase)`
AddIdentityPassphrase ==
    /\ call.op = "addIdentity" /\ call.pc = "passphrase"
    /\ \E sf \in SecretFaults :
         IF sf
         THEN /\ secretFailures' = secretFailures + 1
              /\ call' = [call EXCEPT !.pc = "rejected"]
              /\ fired' = << >>
              /\ UNCHANGED <<secrets, storedIdentities, writeFailures>>
         ELSE \E wf \in WriteFaults :
              /\ secrets' = SecretSet(secrets, PassphraseKey(call.id),
                                      call.arg.passphrase)
              /\ SaveIdentities(identities, ~wf)
              /\ call' = [call EXCEPT !.pc = "done", !.saved = ~wf]
              /\ UNCHANGED secretFailures
    /\ UNCHANGED <<variant, proberVars, hosts, groups, hostStatus, storedHosts,
                   storedGroups, identities>>

\* updateIdentity(id, updates): an unknown id is logged and nothing else
\* happens; otherwise { ...identity, ...updates } replaces the record
UpdateIdentity(id, updates) ==
    /\ Full /\ Idle
    /\ IF ~MapHas(identities, id)
       THEN /\ call' = [op |-> "updateIdentity", pc |-> "noop", id |-> id,
                        arg |-> updates, generated |-> FALSE, saved |-> FALSE]
            /\ fired' = << >>
            /\ UNCHANGED <<identities, storedIdentities, writeFailures>>
       ELSE \E wf \in WriteFaults :
            /\ identities' = MapSet(identities, id,
                                    Spread(MapGet(identities, id), updates))
            /\ SaveIdentities(identities', ~wf)
            /\ call' = [op |-> "updateIdentity", pc |-> "done", id |-> id,
                        arg |-> updates, generated |-> FALSE, saved |-> ~wf]
    /\ UNCHANGED <<variant, proberVars, hosts, groups, hostStatus, secrets,
                   storedHosts, storedGroups, secretFailures>>

\* deleteIdentity(id) up to its first await: an unknown id returns at once;
\* otherwise the record is removed from the map; call.arg keeps the record,
\* whose id field names the secrets
DeleteIdentityBegin(id) ==
    /\ Full /\ Idle
    /\ IF ~MapHas(identities, id)
       THEN /\ call' = [op |-> "deleteIdentity", pc |-> "noop", id |-> id,
                        arg |-> EmptyObj, generated |-> FALSE, saved |-> FALSE]
            /\ UNCHANGED identities
       ELSE /\ identities' = MapDelete(identities, id)
            /\ call' = [op |-> "deleteIdentity", pc |-> "key", id |-> id,
                        arg |-> MapGet(identities, id), generated |-> FALSE,
                        saved |-> FALSE]
    /\ fired' = << >>
    /\ UNCHANGED <<variant, proberVars, hosts, groups, hostStatus, secrets,
                   storedHosts, storedGroups, storedIdentities, writeFailures,
                   secretFailures>>

\* deleteIdentity after `await secrets.delete(secretKey)`
DeleteIdentityKey ==
    /\ call.op = "deleteIdentity" /\ call.pc = "key"
    /\ \E sf \in SecretFaults :
         IF sf
         THEN /\ secretFailures' = secretFailures + 1
              /\ call' = [call EXCEPT !.pc = "rejected"]
              /\ UNCHANGED secrets
         ELSE /\ secrets' = SecretDelete(secrets, IdentityKey(call.arg.id))
              /\ call' = [call EXCEPT !.pc = "passphrase"]
              /\ UNCHANGED secretFailures
    /\ fired' = << >>
    /\ UNCHANGED <<variant, proberVars, hosts, groups, hostStatus, storedHosts,
                   storedGroups, identityVars, writeFailures>>

\* deleteIdentity after `await secrets.delete(passphraseKey)`: the
\* identities are saved
DeleteIdentityPassphrase ==
    /\ call.op = "deleteIdentity" /\ call.pc = "passphrase"
    /\ \E sf \in SecretFaults :
         IF sf
         THEN /\ secretFailures' = secretFailures + 1
              /\ call' = [call EXCEPT !.pc = "rejected"]
              /\ fired' = << >>
              /\ UNCHANGED <<secrets, storedIdentities, writeFailures>>
         ELSE \E wf \in WriteFaults :
              /\ secrets' = SecretDelete(secrets, PassphraseKey(call.arg.id))
              /\ SaveIdentities(identities, ~wf)
              /\ call' = [call EXCEPT !.pc = "done", !.saved = ~wf]
              /\ UNCHANGED secretFailures
    /\ UNCHANGED <<variant, proberVars, hosts, groups, hostStatus, storedHosts,
                   storedGroups, identities>>

-----------------------------------------------------------------------------
(* The SSH config parser (SSHConfigParser._parseContent).  A string is the  *)
(* tuple of its characters.  A line is given as what `line.trim()` and the  *)
(* match of /^(\w+)\s+(.+)$/ make of it: blank, a comment, a line the       *)
(* pattern does not match, or a key and a value.                            *)

\* how many lines a config file of the model has at most
MaxLines == 4

BlankLine == [kind |-> "blank", key |-> "", value |-> << >>]

\* a line that starts with '#'
CommentLine == [kind |-> "comment", key |-> "", value |-> << >>]

\* a line the pattern does not match: a keyword with no value after it
BareLine(key) == [kind |-> "bare", key |-> key, value |-> << >>]

\* a line the pattern matches
KeyValue(key, value) == [kind |-> "match", key |-> key, value |-> value]

\* key.toLowerCase()
ToLowerCase(key) ==
    CASE key \in {"Host", "HOST"} -> "host"
      [] key \in {"HostName", "Hostname"} -> "hostname"
      [] key = "Port" -> "port"
      [] key = "User" -> "user"
      [] key = "Match" -> "match"
      [] OTHER -> key

\* value.includes(ch)
Includes(value, ch) == \E i \in 1..Len(value) : value[i] = ch

\* the decimal digits and their values
DigitValue ==
    [c \in {"0", "1", "2", "3", "4", "5", "6", "7", "8", "9"} |->
        CASE c = "0" -> 0 [] c = "1" -> 1 [] c = "2" -> 2 [] c = "3" -> 3
          [] c = "4" -> 4 [] c = "5" -> 5 [] c = "6" -> 6 [] c = "7" -> 7
          [] c = "8" -> 8 [] c = "9" -> 9]

RECURSIVE ParseDigits(_, _)
\* the number written by the leading digits of value, acc being the number
\* read so far
ParseDigits(value, acc) ==
    IF value = << >> \/ Head(value) \notin DOMAIN DigitValue THEN acc
    ELSE ParseDigits(Tail(value), 10 * acc + DigitValue[Head(value)])

\* parseInt(value, 10) of a value that carries no sign: NaN when it does not
\* start with a digit
ParseInt(value) ==
    IF value = << >> \/ Head(value) \notin DOMAIN DigitValue THEN "NaN"
    ELSE ParseDigits(value, 0)

\* `value !== '*' && !value.includes('*')`
OpensEntry(value) == value # <<"*">> /\ ~Includes(value, "*")

\* `if (currentEntry && currentEntry.hostname) entries.push(currentEntry)`;
\* currentEntry is << >> for null, or the tuple of the one entry
PushEntry(entries, currentEntry) ==
    IF currentEntry # << >> /\ Has(currentEntry[1], "hostname")
    THEN Append(entries, currentEntry[1])
    ELSE entries

\* the switch on the lowered key: the field the directive sets
SetDirective(entry, lowerKey, value) ==
    CASE lowerKey = "hostname" -> Assign(entry, "hostname", value)
      [] lowerKey = "port" -> Assign(entry, "port", ParseInt(value))
      [] lowerKey = "user" -> Assign(entry, "user", value)
      [] OTHER -> entry

RECURSIVE ParseLines(_, _, _)
\* the loop of _parseContent over the remaining lines, then the final push
ParseLines(lines, entries, currentEntry) ==
    IF lines = << >> THEN PushEntry(entries, currentEntry)
    ELSE LET line == Head(lines)
             rest == Tail(lines)
         IN  IF line.kind # "match"
             THEN ParseLines(rest, entries, currentEntry)
             ELSE IF ToLowerCase(line.key) = "host"
             THEN ParseLines(rest, PushEntry(entries, currentEntry),
                             IF OpensEntry(line.value)
                             THEN <<[host |-> line.value]>> ELSE << >>)
             ELSE IF currentEntry # << >>
             THEN ParseLines(rest, entries,
                             <<SetDirective(currentEntry[1],
                                            ToLowerCase(line.key), line.value)>>)
             ELSE ParseLines(rest, entries, currentEntry)

\* _parseContent(content)
ParseContent(lines) == ParseLines(lines, << >>, << >>)

\* the lines of the config files of the model
ConfigLines ==
    {BlankLine, CommentLine, BareLine("Host"),
     KeyValue("Host", <<"a">>), KeyValue("HOST", <<"b">>),
     KeyValue("Host", <<"*">>), KeyValue("Host", <<"a", "*">>),
     KeyValue("Host", <<"a", "?">>),
     KeyValue("HostName", <<"h", "1">>), KeyValue("Hostname", <<"h", "2">>),
     KeyValue("Port", <<"2", "2">>), KeyValue("Match", <<"a">>)}

RECURSIVE Files(_)
\* the config files of at most n lines
Files(n) ==
    IF n = 0 THEN {<< >>}
    ELSE LET shorter == Files(n - 1)
         IN  shorter \cup {Append(f, l) : f \in shorter, l \in ConfigLines}

\* _parseContent is called with the content of a config file
ParseConfig(lines) ==
    /\ variant = "workbench" /\ Idle
    /\ call' = [op |-> "parseContent", pc |-> "done", id |-> 0,
                arg |-> [lines |-> lines, entries |-> ParseContent(lines)],
                generated |-> FALSE, saved |-> FALSE]
    /\ fired' = << >>
    /\ UNCHANGED <<variant, identityVars, proberVars, hosts, groups, hostStatus,
                   secrets, storedHosts, storedGroups, writeFailures,
                   secretFailures>>

-----------------------------------------------------------------------------
(* The registry as a state machine *)

\* the registry constructed over empty stores
Init ==
    /\ variant \in Variants
    /\ hosts = << >>
    /\ groups = << >>
    /\ hostStatus = EmptyObj
    /\ secrets = EmptyObj
    /\ storedHosts = << >>
    /\ storedGroups = << >>
    /\ call = NoCall
    /\ fired = << >>
    /\ writeFailures = 0
    /\ secretFailures = 0
    /\ identities = << >>
    /\ storedIdentities = << >>
    /\ refreshes = NoRefreshes
    /\ sweep = NoSweep
    /\ timers = IF Full THEN StartedTimers ELSE NoTimers

\* the caller's await of the registry call ends
Return ==
    /\ Ended
    /\ call' = NoCall
    /\ fired' = << >>
    /\ UNCHANGED <<variant, identityVars, proberVars, hosts, groups, hostStatus, secrets, storedHosts,
                   storedGroups, writeFailures, secretFailures>>

Next ==
    \/ \E h \in HostInputs : AddHostBegin(h)
    \/ AddHostSecret
    \/ \E id \in Ids, u \in HostUpdates : UpdateHost(id, u)
    \/ \E id \in Ids : DeleteHostBegin(id)
    \/ DeleteHostSecret
    \/ \E h \in SimpleHosts, p \in Passwords : SaveHostBegin(h, p)
    \/ SaveHostSecret
    \/ \E id \in Ids : SimpleDeleteBegin(id)
    \/ SimpleDeleteSecret
    \/ Return

Spec == Init /\ [][Next]_vars

-----------------------------------------------------------------------------
(* The group table and the resolver, over a registry that holds one host   *)
(* of group "g" and one host of no group                                   *)

MemberHost ==
    [id |-> 1, name |-> "web1", group |-> "g", tags |-> <<"web">>,
     connection |-> BaseConnection, auth |-> [type |-> "password"],
     created |-> 5]

LoneHost ==
    [id |-> 2, name |-> "x", connection |-> BaseConnection,
     auth |-> [type |-> "key"], created |-> 5]

\* the registry constructed over a store that holds the two hosts
InitGroups ==
    /\ variant \in {"workbench", "extension"}
    /\ storedHosts = <<MemberHost, LoneHost>>
    /\ hosts = LoadHosts(storedHosts)
    /\ hostStatus = LoadStatus(storedHosts)
    /\ groups = << >>
    /\ secrets = EmptyObj
    /\ storedGroups = << >>
    /\ call = NoCall
    /\ fired = << >>
    /\ writeFailures = 0
    /\ secretFailures = 0
    /\ identities = << >>
    /\ storedIdentities = << >>
    /\ refreshes = NoRefreshes
    /\ sweep = NoSweep
    /\ timers = StartedTimers

NextGroups ==
    \/ \E g \in GroupInputs : AddGroup(g)
    \/ \E n \in GroupNames, u \in GroupUpdates : UpdateGroup(n, u)
    \/ \E n \in GroupNames : DeleteGroup(n)
    \/ \E h \in ResolverHosts : Resolve(h)
    \/ \E id \in Ids : ResolveStored(id)
    \/ Return

SpecGroups == InitGroups /\ [][NextGroups]_vars

-----------------------------------------------------------------------------
(* The prober, over a registry that holds an ssh host and a host that runs *)
(* on this machine                                                         *)

SshHost ==
    [id |-> 1, name |-> "web1", connection |-> BaseConnection,
     auth |-> [type |-> "key"], created |-> 5]

\* a host of protocol local or wsl
MachineHost(protocol) ==
    [id |-> 2, name |-> "x",
     connection |-> [BaseConnection EXCEPT !.protocol = protocol],
     auth |-> [type |-> "key"], created |-> 5]

\* the registry constructed over a store that holds the two hosts
InitProbe ==
    /\ variant \in {"workbench", "extension"}
    /\ storedHosts \in {<<SshHost, MachineHost(p)>> : p \in {"local", "wsl"}}
    /\ hosts = LoadHosts(storedHosts)
    /\ hostStatus = LoadStatus(storedHosts)
    /\ groups = << >>
    /\ secrets = EmptyObj
    /\ storedGroups = << >>
    /\ call = NoCall
    /\ fired = << >>
    /\ writeFailures = 0
    /\ secretFailures = 0
    /\ identities = << >>
    /\ storedIdentities = << >>
    /\ refreshes = NoRefreshes
    /\ sweep = NoSweep
    /\ timers = StartedTimers

NextProbe ==
    \/ \E r \in Slots, id \in ProbeIds : RefreshBegin(r, id)
    \/ \E r \in Slots : RefreshFetch(r)
    \/ \E r \in Slots : RefreshEnd(r)
    \/ \E r \in Slots : RefreshReturn(r)
    \/ SweepStart
    \/ SweepNext
    \/ SweepFetch
    \/ SweepEnd

SpecProbe == InitProbe /\ [][NextProbe]_vars

\* the event loop runs every continuation that is ready, and every fetch
\* settles: it is fulfilled, rejected, or aborted by the 5 s timer
FairProbe ==
    /\ \A r \in Slots : WF_vars(RefreshFetch(r)) /\ WF_vars(RefreshEnd(r))
    /\ WF_vars(SweepNext) /\ WF_vars(SweepFetch) /\ WF_vars(SweepEnd)

SpecProbeFair == SpecProbe /\ FairProbe

-----------------------------------------------------------------------------
(* refreshStatus of the registry without background ping *)

\* that registry constructed over a store that holds the two hosts
InitBasicProbe ==
    /\ variant = "basic"
    /\ storedHosts \in {<<SshHost, MachineHost(p)>> : p \in {"local", "wsl"}}
    /\ hosts = LoadHosts(storedHosts)
    /\ hostStatus = LoadStatus(storedHosts)
    /\ groups = << >>
    /\ secrets = EmptyObj
    /\ storedGroups = << >>
    /\ call = NoCall
    /\ fired = << >>
    /\ writeFailures = 0
    /\ secretFailures = 0
    /\ identities = << >>
    /\ storedIdentities = << >>
    /\ refreshes = NoRefreshes
    /\ sweep = NoSweep
    /\ timers = NoTimers

NextBasicProbe ==
    \/ \E r \in Slots, id \in ProbeIds : BasicRefreshBegin(r, id)
    \/ \E r \in Slots : BasicRefreshFetch(r)
    \/ \E r \in Slots : RefreshEnd(r)
    \/ \E r \in Slots : RefreshReturn(r)

SpecBasicProbe == InitBasicProbe /\ [][NextBasicProbe]_vars

-----------------------------------------------------------------------------
(* The prober while hosts are deleted *)

NextProbeDelete ==
    \/ \E id \in Ids : RefreshBegin(1, id)
    \/ RefreshFetch(1)
    \/ RefreshEnd(1)
    \/ RefreshReturn(1)
    \/ SweepStart
    \/ SweepNext
    \/ SweepFetch
    \/ SweepEnd
    \/ \E id \in Ids : DeleteHostBegin(id)
    \/ DeleteHostSecret
    \/ Return

SpecProbeDelete == InitProbe /\ [][NextProbeDelete]_vars

-----------------------------------------------------------------------------
(* The background ping of a registry that is disposed *)

NextDispose ==
    \/ InitialSweepStart
    \/ SweepStart
    \/ SweepNext
    \/ SweepFetch
    \/ SweepEnd
    \/ \E id \in Ids : RefreshBegin(1, id)
    \/ RefreshFetch(1)
    \/ RefreshEnd(1)
    \/ RefreshReturn(1)
    \/ Dispose

SpecDispose == InitProbe /\ [][NextDispose]_vars

-----------------------------------------------------------------------------
(* Import and export, over a registry that holds the ssh host *)

\* the registry constructed over a store that holds one host
InitImport ==
    /\ variant \in {"workbench", "extension"}
    /\ storedHosts = <<SshHost>>
    /\ hosts = LoadHosts(storedHosts)
    /\ hostStatus = LoadStatus(storedHosts)
    /\ groups = << >>
    /\ secrets = EmptyObj
    /\ storedGroups = << >>
    /\ call = NoCall
    /\ fired = << >>
    /\ writeFailures = 0
    /\ secretFailures = 0
    /\ identities = << >>
    /\ storedIdentities = << >>
    /\ refreshes = NoRefreshes
    /\ sweep = NoSweep
    /\ timers = StartedTimers

NextImport ==
    \/ \E src \in ImportSources, data \in ImportData : ImportBegin(src, data)
    \/ ImportAdd
    \/ \E ids \in ExportIds, e \in BOOLEAN : ExportHosts(ids, e)
    \/ Return

SpecImport == InitImport /\ [][NextImport]_vars

-----------------------------------------------------------------------------
(* The identity registry as a state machine *)

\* the identity registry constructed over empty stores
InitIdentity ==
    /\ variant \in {"workbench", "extension"}
    /\ hosts = << >>
    /\ groups = << >>
    /\ hostStatus = EmptyObj
    /\ secrets = EmptyObj
    /\ storedHosts = << >>
    /\ storedGroups = << >>
    /\ call = NoCall
    /\ fired = << >>
    /\ writeFailures = 0
    /\ secretFailures = 0
    /\ identities = << >>
    /\ storedIdentities = << >>
    /\ refreshes = NoRefreshes
    /\ sweep = NoSweep
    /\ timers = StartedTimers

NextIdentity ==
    \/ \E i \in IdentityInputs, d \in PrivateData, p \in Passphrases :
         AddIdentityBegin(i, d, p)
    \/ AddIdentityKey
    \/ AddIdentityPassphrase
    \/ \E id \in Ids, u \in IdentityUpdates : UpdateIdentity(id, u)
    \/ \E id \in Ids : DeleteIdentityBegin(id)
    \/ DeleteIdentityKey
    \/ DeleteIdentityPassphrase
    \/ Return

SpecIdentity == InitIdentity /\ [][NextIdentity]_vars

-----------------------------------------------------------------------------
(* Port values: the registry over hosts, updates and import data that      *)
(* carry any port                                                          *)

\* the port numbers a caller may pass: below, inside and above [1, 65535]
PortValues == {0, 22, 65536}

\* an IPortTunnel of type local
Tunnel(localPort, remotePort) ==
    [type |-> "local", localPort |-> localPort, remoteHost |-> "db",
     remotePort |-> remotePort]

\* validateTunnels of the port forwarding dialog: every local port, and
\* every remote port of a tunnel that is not dynamic, is in [1, 65535]
ValidateTunnels(tunnels) ==
    \A i \in 1..Len(tunnels) :
       LET tunnel == tunnels[i]
       IN  /\ ~(tunnel.localPort = 0 \/ tunnel.localPort < 1
                  \/ tunnel.localPort > 65535)
           /\ tunnel.type # "dynamic"
                => ~(tunnel.remotePort = 0 \/ tunnel.remotePort < 1
                       \/ tunnel.remotePort > 65535)

\* a host with the connection port p
PortHost(p) ==
    [id |-> 1, name |-> "web1",
     connection |-> [BaseConnection EXCEPT !.port = p],
     auth |-> [type |-> "key"], created |-> 5]

\* the host objects passed to addHost, with any port and any tunnel port
PortHosts ==
    {PortHost(p) : p \in PortValues}
    \cup {[id |-> 2, name |-> "web1", connection |-> BaseConnection,
           auth |-> [type |-> "key"], created |-> 5,
           tunnels |-> <<Tunnel(p, 80)>>] : p \in PortValues}

\* the Partial<IHost> objects passed to updateHost
PortUpdates ==
    {[connection |-> [BaseConnection EXCEPT !.port = 65536]],
     [tunnels |-> <<Tunnel(22, 0)>>]}

\* the arrays passed to importHosts('labonair', ...)
PortImportData == {<<PortHost(22)>>, <<PortHost(0)>>}

\* the registry constructed over empty stores
InitPorts ==
    /\ variant \in {"workbench", "extension"}
    /\ hosts = << >>
    /\ groups = << >>
    /\ hostStatus = EmptyObj
    /\ secrets = EmptyObj
    /\ storedHosts = << >>
    /\ storedGroups = << >>
    /\ call = NoCall
    /\ fired = << >>
    /\ writeFailures = 0
    /\ secretFailures = 0
    /\ identities = << >>
    /\ storedIdentities = << >>
    /\ refreshes = NoRefreshes
    /\ sweep = NoSweep
    /\ timers = StartedTimers

NextPorts ==
    \/ \E h \in PortHosts : AddHostBegin(h)
    \/ \E id \in Ids, u \in PortUpdates : UpdateHost(id, u)
    \/ \E data \in PortImportData : ImportBegin("labonair", data)
    \/ ImportAdd
    \/ Return

SpecPorts == InitPorts /\ [][NextPorts]_vars

-----------------------------------------------------------------------------
(* The SSH config parser over every config file of at most MaxLines lines *)

InitParser ==
    /\ variant = "workbench"
    /\ hosts = << >>
    /\ groups = << >>
    /\ hostStatus = EmptyObj
    /\ secrets = EmptyObj
    /\ storedHosts = << >>
    /\ storedGroups = << >>
    /\ call = NoCall
    /\ fired = << >>
    /\ writeFailures = 0
    /\ secretFailures = 0
    /\ identities = << >>
    /\ storedIdentities = << >>
    /\ refreshes = NoRefreshes
    /\ sweep = NoSweep
    /\ timers = StartedTimers

NextParser ==
    \/ \E lines \in Files(MaxLines) : ParseConfig(lines)
    \/ Return

SpecParser == InitParser /\ [][NextParser]_vars

-----------------------------------------------------------------------------
(* Properties of the host operations, checked under Spec *)

\* the step in which a registry call of operation op ends resolved
Completes(op) == call.pc # "done" /\ call'.pc = "done" /\ call'.op = op

C2_UpdateNameIsMerge ==
    [][(Completes("updateHost") /\ DOMAIN call'.arg = {"name"})
         => /\ Len(hosts') = Len(hosts)
            /\ \A i \in 1..Len(hosts) :
                  /\ hosts'[i].k = hosts[i].k
                  /\ hosts[i].k # call'.id => hosts'[i] = hosts[i]
            /\ LET old == MapGet(hosts, call'.id)
                   new == MapGet(hosts', call'.id)
               IN  /\ DOMAIN new = DOMAIN old \cup {"name"}
                   /\ new.name = call'.arg.name
                   /\ \A f \in DOMAIN old \ {"name"} : new[f] = old[f]
            /\ UNCHANGED <<groups, hostStatus, secrets>>]_vars

\* C2 witness: a rename has ended in a registry of two hosts
C2_Witness ==
    /\ call.op = "updateHost" /\ call.pc = "done"
    /\ DOMAIN call.arg = {"name"}
    /\ Len(hosts) = 2
    /\ MapGet(hosts, call.id).name = "x"
    /\ \E i \in 1..2 : hosts[i].v.name = "web1"

\* C3: when deleteHost(id) has ended resolved, the registry holds no record
\* under id and the secret store holds nothing under the key derived from id
C3_DeletePurgesSecret ==
    (call.op = "deleteHost" /\ call.pc = "done")
        => IF Simple
           THEN /\ \A i \in 1..Len(storedHosts) : storedHosts[i].id # call.id
                /\ PwdKey(call.id) \notin DOMAIN secrets
           ELSE /\ ~MapHas(hosts, call.id)
                /\ SecretKey(call.id) \notin DOMAIN secrets

\* C3 witness: the delete of a password host has ended while another
\* host's secret is still stored
C3_Witness ==
    /\ Full
    /\ call.op = "deleteHost" /\ call.pc = "done"
    /\ call.arg.auth.type = "password"
    /\ DOMAIN secrets # {}

\* C4: when addHost(h) has ended resolved, getHost(h.id) returns one record
\* that has every field of h with h's value, and beyond them only the id and
\* the creation time the registry assigned
C4_AddThenGet ==
    (call.op = "addHost" /\ call.pc = "done")
        => LET got == GetHost(call.id)
           IN  /\ Len(got) = 1
               /\ DOMAIN got[1] = DOMAIN call.arg \cup {"id", "created"}
               /\ \A f \in DOMAIN call.arg : got[1][f] = call.arg[f]
               /\ got[1].id = call.id

\* C4 witness: a host that came with a creation time and no id has been added
C4_Witness ==
    /\ call.op = "addHost" /\ call.pc = "done"
    /\ ~Has(call.arg, "id") /\ Has(call.arg, "created")

\* C5: the step that ends addHost of a host without id leaves the host stored
\* under the generated id with cached status unknown; for a password host
\* the secret store then holds '' under that id's key, and for any other
\* host the call has written nothing to the secret store
C5_AddProvisions ==
    [][(Completes("addHost") /\ call'.generated)
         => /\ MapHas(hosts', call'.id)
            /\ call'.id \in DOMAIN hostStatus'
            /\ hostStatus'[call'.id] = "unknown"
            /\ IF call'.arg.auth.type = "password"
               THEN /\ SecretKey(call'.id) \in DOMAIN secrets'
                    /\ secrets'[SecretKey(call'.id)] = ""
               ELSE call.pc = "idle" /\ secrets' = secrets]_vars

\* C5 witness: a password host without id has been added
C5_Witness ==
    /\ call.op = "addHost" /\ call.pc = "done" /\ call.generated
    /\ call.arg.auth.type = "password"
    /\ SecretKey(call.id) \in DOMAIN secrets

\* C7, first half: when a host mutation has ended and its write did not
\* fail, the stored array is the in-memory records in Map order
C7_StoredIsMemory ==
    (Full /\ call.pc = "done" /\ call.saved
          /\ call.op \in {"addHost", "updateHost", "deleteHost"})
        => storedHosts = MapValues(hosts)

\* C7: after completed host mutations, none of which failed, the stored array
\* is the in-memory host set and a registry loaded from it lists the same
\* host records
C7_ReloadListsSameHosts ==
    (Full /\ call.pc = "done" /\ writeFailures = 0 /\ secretFailures = 0
          /\ call.op \in {"addHost", "updateHost", "deleteHost"})
        => /\ storedHosts = MapValues(hosts)
           /\ MapValues(LoadHosts(storedHosts)) = MapValues(hosts)

\* C6, hosts: updateHost or deleteHost of an unknown id changes nothing and
\* fires nothing
C6_UnknownHostIsNoOp ==
    [][(call.pc = "idle" /\ call'.pc = "noop")
         => /\ UNCHANGED <<hosts, groups, hostStatus, secrets, storedHosts,
                           storedGroups>>
            /\ fired' = << >>]_vars

-----------------------------------------------------------------------------
(* Properties of the group table and the resolver, checked under SpecGroups *)

\* C6: an update or delete that names an unknown id ends resolved, leaves the
\* records, the statuses, the secrets and the persisted data as they were
\* and fires nothing
C6_UnknownIsNoOp ==
    [][(call.pc = "idle" /\ call'.pc \in {"noop", "unknown"})
         => /\ UNCHANGED <<hosts, groups, hostStatus, secrets, storedHosts,
                           storedGroups>>
            /\ fired' = << >>]_vars

\* a host has just been resolved against defaults d of its group
Resolved == call.op = "getEffectiveConfig"

ResolvedHost == call.arg.host

ResolvedResult == call.arg.result

HasDefaults ==
    /\ Resolved
    /\ Has(ResolvedHost, "group")
    /\ MapHas(groups, ResolvedHost.group)
    /\ Has(MapGet(groups, ResolvedHost.group), "defaults")

ResolvedDefaults == MapGet(groups, ResolvedHost.group).defaults

\* the host's value when set, otherwise the group's when set, otherwise dflt
Precedence(own, inherited, dflt, unset) ==
    IF own \notin unset THEN own
    ELSE IF inherited \notin unset THEN inherited
    ELSE dflt

\* C8: for a host of a group whose defaults define connection, every
\* connection field of the result is the host's own value when the host
\* sets it, otherwise the group's, otherwise the hard-coded default
C8_ConnectionPrecedence ==
    (HasDefaults /\ Has(ResolvedDefaults, "connection"))
        => LET own == ResolvedHost.connection
               inh == ResolvedDefaults.connection
               eff == ResolvedResult.connection
           IN  /\ Num(eff, "port")
                     = Precedence(Num(own, "port"), Num(inh, "port"), 22, {0})
               /\ Str(eff, "protocol")
                     = Precedence(Str(own, "protocol"), Str(inh, "protocol"),
                                  "ssh", {"", Undefined})
               /\ Str(eff, "username")
                     = Precedence(Str(own, "username"), Str(inh, "username"),
                                  "root", {"", Undefined})
               /\ Str(eff, "osIcon")
                     = Precedence(Str(own, "osIcon"), Str(inh, "osIcon"),
                                  "linux", {"", Undefined})
               /\ Str(eff, "host")
                     = Precedence(Str(own, "host"), Str(inh, "host"),
                                  Undefined, {"", Undefined})

\* C8 for the extension's resolver alone
C8_ExtensionPrecedence == variant = "extension" => C8_ConnectionPrecedence

\* the elements of a list
Elems(list) == {list[i] : i \in 1..Len(list)}

\* where x first occurs in list
FirstAt(list, x) ==
    CHOOSE i \in 1..Len(list) : list[i] = x /\ \A j \in 1..(i - 1) : list[j] # x

\* merged holds every element of list exactly once, in the order of the
\* first occurrences in list
IsUnionOf(merged, list) ==
    /\ Elems(merged) = Elems(list)
    /\ \A i, j \in 1..Len(merged) :
          i < j => FirstAt(list, merged[i]) < FirstAt(list, merged[j])

\* C9: when the group defaults and the host both have tags, the result's tags
\* are the group's followed by the host's, each tag once; when one side
\* alone has tags, the result's tags are that list
C9_TagUnion ==
    HasDefaults
        => LET own == ResolvedHost
               inh == ResolvedDefaults
               eff == ResolvedResult
           IN  IF Has(inh, "tags") /\ Has(own, "tags")
               THEN Has(eff, "tags") /\ IsUnionOf(eff.tags, inh.tags \o own.tags)
               ELSE IF Has(inh, "tags")
               THEN Has(eff, "tags") /\ eff.tags = inh.tags
               ELSE IF Has(own, "tags")
               THEN Has(eff, "tags") /\ eff.tags = own.tags
               ELSE ~Has(eff, "tags")

\* C9 for the extension's resolver alone
C9_ExtensionTagUnion == variant = "extension" => C9_TagUnion

\* C10: a host that sets an identityId, or whose auth.type is not password,
\* keeps its own auth whatever the auth defaults of its group
C10_AuthKept ==
    (HasDefaults /\ (\/ Str(ResolvedHost.auth, "identityId") \notin {"", Undefined}
                     \/ ResolvedHost.auth.type # "password"))
        => ResolvedResult.auth = ResolvedHost.auth

\* C10 for the extension's resolver alone
C10_ExtensionAuthKept == variant = "extension" => C10_AuthKept

\* the host that is resolved in this step is one to which defaults apply
DefaultsApply ==
    /\ Has(call'.arg.host, "group")
    /\ MapHas(groups, call'.arg.host.group)
    /\ Has(MapGet(groups, call'.arg.host.group), "defaults")

\* C11: a call of getEffectiveConfig leaves the host records, the group
\* table, the cached statuses, the secrets and the persisted data as they
\* were, and for a stored host to which defaults apply the result is a new
\* object, not the stored record
C11_ResolveHasNoSideEffect ==
    [][(call.pc = "idle" /\ call'.op = "getEffectiveConfig")
         => /\ UNCHANGED <<hosts, groups, hostStatus, secrets, storedHosts,
                           storedGroups>>
            /\ (Has(call'.arg, "fresh") /\ DefaultsApply) => call'.arg.fresh]_vars

\* C11 witness: the stored member host has been resolved and the defaults of
\* its group changed the result
C11_Witness ==
    /\ call.op = "getEffectiveConfig" /\ call.id # 0
    /\ call.arg.result # call.arg.host
    /\ MapGet(hosts, call.id) = call.arg.host

\* C12: deleteGroup(g) removes g from the group table and removes or changes
\* no host record, so member hosts keep their group field; from then on
\* getEffectiveConfig of a host of group g returns the host as it is, and
\* so does every resolve of a host whose group is not in the table
C12_DeleteGroupNoCascade ==
    [][/\ (call.pc = "idle" /\ call'.op = "deleteGroup")
            => /\ ~MapHas(groups', call'.arg.name)
               /\ UNCHANGED <<hosts, hostStatus, storedHosts>>
               /\ \A i \in 1..Len(hosts') :
                     (Has(hosts'[i].v, "group")
                         /\ hosts'[i].v.group = call'.arg.name)
                       => GetEffectiveRef(variant, groups', hosts'[i].v)
                             = [fresh |-> FALSE, obj |-> hosts'[i].v]
       /\ (call.pc = "idle" /\ call'.op = "getEffectiveConfig"
              /\ Has(call'.arg.host, "group")
              /\ ~MapHas(groups', call'.arg.host.group))
            => call'.arg.result = call'.arg.host]_vars

\* C12 witness: a group that existed has been deleted while a stored host
\* names it
C12_Witness ==
    /\ call.op = "deleteGroup" /\ call.pc = "done"
    /\ \E i \in 1..Len(hosts) :
          Has(hosts[i].v, "group") /\ hosts[i].v.group = call.arg.name

-----------------------------------------------------------------------------
(* Properties of the prober, checked under SpecProbe and SpecProbeFair *)

\* the refreshStatus call of slot r awaits its probe
InFlight(r) == refreshes[r].pc = "probing"

\* the step in which the refreshStatus call of slot r ends
Ends(r) == refreshes[r].pc = "probing" /\ refreshes'[r].pc = "done"

\* the protocol of the registered host id
ProtocolOf(id) == MapGet(hosts, id).connection.protocol

\* C13: refreshStatus of a registered host whose protocol is local or wsl
\* ends with the cached status online
C13_MachineHostIsOnline ==
    [][\A r \in Slots :
         (Ends(r) /\ ProtocolOf(refreshes[r].id) \in {"local", "wsl"})
           => hostStatus'[refreshes[r].id] = "online"]_vars

\* C13 witness: the refresh of a local or wsl host has ended online although
\* the status it found was connecting
C13_Witness ==
    \E r \in Slots :
        /\ refreshes[r].pc = "done"
        /\ ProtocolOf(refreshes[r].id) \in {"local", "wsl"}
        /\ refreshes[r].before = "connecting"
        /\ hostStatus[refreshes[r].id] = "online"

\* no refreshStatus call for id is in flight
Quiet(id) == \A r \in Slots : InFlight(r) => refreshes[r].id # id

\* C14: every refreshStatus call that awaits its probe ends, with a terminal
\* status; and while no refreshStatus call for a host is in flight the
\* cached status of that host is not connecting
C14_RefreshEndsTerminal ==
    /\ [](\A id \in DOMAIN hostStatus :
            Quiet(id) => hostStatus[id] # "connecting")
    /\ [](\A r \in Slots :
            refreshes[r].pc = "done"
              => refreshes[r].ping.result \in {"online", "offline", "unknown"})
    /\ \A r \in Slots : InFlight(r) ~> (refreshes[r].pc = "done")

\* C14 witness: two calls for the same host have ended, and the second began
\* while the first was in flight
C14_Witness ==
    /\ refreshes[1].pc = "done" /\ refreshes[2].pc = "done"
    /\ refreshes[1].id = refreshes[2].id
    /\ refreshes[2].before = "connecting"
    /\ refreshes[1].ping.result # refreshes[2].ping.result

\* C15: refreshStatus of a registered host begins by storing connecting and
\* telling the listeners connecting, and it calls _pingHost once, also when
\* the status was connecting already; while the probe runs the call stores
\* and tells nothing; it ends by storing the result of the probe and telling
\* the listeners that result
C15_RefreshSequence ==
    [][\A r \in Slots :
         LET id == refreshes'[r].id
         IN  /\ (refreshes[r].pc = "idle" /\ InFlight(r)')
                  => /\ hostStatus'[id] = "connecting"
                     /\ fired' = <<[hostId |-> id, status |-> "connecting"]>>
                     /\ refreshes'[r].pings = 1
             /\ (InFlight(r) /\ InFlight(r)' /\ refreshes'[r] # refreshes[r])
                  => /\ fired' = << >>
                     /\ hostStatus' = hostStatus
                     /\ refreshes'[r].pings = 1
             /\ Ends(r)
                  => /\ refreshes'[r].pings = 1
                     /\ hostStatus'[id] = refreshes[r].ping.result
                     /\ fired' = <<[hostId |-> id,
                                    status |-> refreshes[r].ping.result]>>]_vars

\* C15 witness: a call that found the status connecting has probed once and
\* ended
C15_Witness ==
    \E r \in Slots :
        /\ refreshes[r].pc = "done"
        /\ refreshes[r].before = "connecting"
        /\ refreshes[r].pings = 1
        /\ refreshes[r].ping.result = "unknown"

-----------------------------------------------------------------------------
(* Properties of import and export, checked under SpecImport *)

\* the loop of importHosts stores its next host in this step
ImportStores ==
    /\ call.op = "importHosts" /\ call.pc = "adding"
    /\ call.arg.queue # << >>

Unsupported(c) ==
    \/ c.op = "exportHosts" /\ c.arg.encrypt
    \/ c.op = "importHosts" /\ c.arg.source = "filezilla"
    \/ c.op = "importHosts" /\ c.arg.source = "ssh-config"
          /\ variant = "extension"

\* C17: an export with encrypt = true and an import from an unimplemented
\* source end rejected with a message and change nothing in the registry
C17_UnsupportedIsRejected ==
    [][(call.pc = "idle" /\ call'.pc # "idle" /\ Unsupported(call'))
         => /\ call'.pc = "rejected"
            /\ Has(call'.arg, "message")
            /\ UNCHANGED <<hosts, groups, hostStatus, secrets, storedHosts,
                           storedGroups>>]_vars

\* C17 for importHosts alone
C17_UnsupportedImportIsRejected ==
    [][(call.pc = "idle" /\ call'.op = "importHosts" /\ Unsupported(call'))
         => /\ call'.pc = "rejected"
            /\ Has(call'.arg, "message")
            /\ UNCHANGED <<hosts, groups, hostStatus, secrets, storedHosts,
                           storedGroups>>]_vars

-----------------------------------------------------------------------------
(* Properties of the identity registry, checked under SpecIdentity *)

\* the identity list holds a record whose id is id
ListsIdentity(list, id) == \E i \in 1..Len(list) : list[i].id = id

\* the persisted identity list holds a record whose id is id
Persisted(id) == ListsIdentity(storedIdentities, id)

\* C18: a write of the identity list that puts the identity registered under
\* id into the persistent store for the first time finds the private data
\* stored under the identity's key, and the passphrase stored under the
\* passphrase key when the addIdentity that writes the list was given one
C18_SecretsBeforeMetadata ==
    [][\A id \in Ids :
         (~Persisted(id) /\ ListsIdentity(storedIdentities', id)
            /\ MapHas(identities', id))
           => /\ IdentityKey(id) \in DOMAIN secrets'
              /\ (call'.op = "addIdentity" /\ call'.id = id
                    /\ Given(call'.arg.passphrase))
                   => PassphraseKey(id) \in DOMAIN secrets']_vars

\* C18 within one call: when an addIdentity call has written the identity
\* list, the list holds the identity and both of the call's secret writes
\* have completed
C18_OwnSaveFollowsSecrets ==
    [][(Completes("addIdentity") /\ call'.saved)
         => /\ ListsIdentity(storedIdentities', call'.id)
            /\ IdentityKey(call'.id) \in DOMAIN secrets'
            /\ Given(call'.arg.passphrase)
                 => /\ IdentityKey(call'.id) \in DOMAIN secrets
                    /\ PassphraseKey(call'.id) \in DOMAIN secrets']_vars

\* C19: when deleteIdentity(id) of a registered identity has ended resolved,
\* neither the map nor the persisted list holds an identity under id, and
\* the secret store holds nothing under the identity key or the passphrase
\* key of id
C19_DeletePurgesIdentity ==
    (call.op = "deleteIdentity" /\ call.pc = "done")
        => /\ ~MapHas(identities, call.id)
           /\ ~Persisted(call.id)
           /\ IdentityKey(call.id) \notin DOMAIN secrets
           /\ PassphraseKey(call.id) \notin DOMAIN secrets

\* C19 in memory: after a resolved deleteIdentity(id) the map holds no
\* identity under id
C19_DeleteRemovesFromMap ==
    (call.op = "deleteIdentity" /\ call.pc \in {"done", "noop"})
        => ~MapHas(identities, call.id)

-----------------------------------------------------------------------------
(* Change notifications of the registry mutations *)

\* the operations that change the host registry
Mutations ==
    {"addHost", "updateHost", "deleteHost", "addGroup", "updateGroup",
     "deleteGroup"}

\* the step emits the "hosts changed" notification
FiresHostsChanged == \E i \in 1..Len(fired') : fired'[i] = "hostsChanged"

\* C20: in the workbench and the extension registry, the step in which a
\* mutation ends resolved emits "hosts changed", for the host operations and
\* for the group operations
C20_MutationNotifies ==
    [][(Full /\ call.pc # "done" /\ call'.pc = "done"
          /\ call'.op \in Mutations)
         => FiresHostsChanged]_vars

\* C20 for the host operations whose write succeeded
C20_SavedHostMutationNotifies ==
    [][(Full /\ call.pc # "done" /\ call'.pc = "done" /\ call'.saved
          /\ call'.op \in {"addHost", "updateHost", "deleteHost"})
         => FiresHostsChanged]_vars

-----------------------------------------------------------------------------
(* The id of a host, checked under Spec *)

\* C21: in the workbench and the extension registry, every record of the
\* host map carries the id it is stored under, so no updateHost changes the
\* id of an existing host
C21_IdIsKey ==
    Full => \A i \in 1..Len(hosts) : hosts[i].v.id = hosts[i].k

\* C21 for addHost alone: the record an add stores carries its key
C21_AddStoresUnderId ==
    [][(Full /\ call.pc = "idle" /\ call'.op = "addHost")
         => MapGet(hosts', call'.id).id = call'.id]_vars

-----------------------------------------------------------------------------
(* Port values, checked under SpecPorts *)

\* the port is in [1, 65535]
ValidPort(p) == 1 <= p /\ p <= 65535

\* the connection port and every tunnel port of the host record are valid
ValidPorts(h) ==
    /\ ValidPort(h.connection.port)
    /\ Has(h, "tunnels")
         => \A i \in 1..Len(h.tunnels) :
               /\ ValidPort(h.tunnels[i].localPort)
               /\ ValidPort(h.tunnels[i].remotePort)

\* C22: every host in the map and every host in the persisted array has its
\* connection port and its tunnel ports in [1, 65535]
C22_PortsInRange ==
    /\ \A i \in 1..Len(hosts) : ValidPorts(hosts[i].v)
    /\ \A i \in 1..Len(storedHosts) : ValidPorts(storedHosts[i])

\* C22 for the dialog's check alone: tunnels that validateTunnels accepts
\* have their ports in [1, 65535]
C22_ValidatedTunnelsInRange ==
    \A i \in 1..Len(hosts) :
       LET h == hosts[i].v
       IN  (Has(h, "tunnels") /\ ValidateTunnels(h.tunnels))
             => \A j \in 1..Len(h.tunnels) :
                   /\ ValidPort(h.tunnels[j].localPort)
                   /\ ValidPort(h.tunnels[j].remotePort)

-----------------------------------------------------------------------------
(* Properties of the background ping, checked under SpecProbe *)

\* the step in which the loop of _pingAllHosts takes the next host of its
\* snapshot
SweepTakes == sweep.pc = "loop" /\ sweep.queue # << >> /\ sweep' # sweep

\* the step emits a status notification for id
FiresFor(id) == \E i \in 1..Len(fired') : fired'[i].hostId = id

\* C23: when the loop of _pingAllHosts reaches a host whose cached status is
\* connecting it starts no probe, leaves the status cache alone and emits
\* nothing; any other host of the snapshot it probes
C23_SweepSkipsConnecting ==
    [][SweepTakes
         => LET host == Head(sweep.queue)
            IN  /\ sweep'.queue = Tail(sweep.queue)
                /\ hostStatus' = hostStatus
                /\ fired' = << >>
                /\ IF StatusGet(hostStatus, host.id) = "connecting"
                   THEN sweep'.pc = "loop" /\ sweep'.ping = NoPing
                   ELSE /\ sweep'.pc = "probing" /\ sweep'.id = host.id
                        /\ sweep'.ping = PingStart(host)]_vars

\* C23 witness: the loop has skipped the host a refreshStatus call is
\* probing, and that host is still connecting
C23_Witness ==
    /\ sweep.skipped = <<1>>
    /\ \E r \in Slots : refreshes[r].pc = "probing" /\ refreshes[r].id = 1
    /\ StatusGet(hostStatus, 1) = "connecting"
    /\ sweep.pc = "probing" /\ sweep.id = 2

\* the step in which the loop of _pingAllHosts has its probe result
SweepGets == sweep.pc = "probing" /\ sweep.ping.pc = "resolved" /\ sweep' # sweep

\* C24: after its probe the loop of _pingAllHosts stores the status and
\* tells the listeners when the status differs from the cached one; when
\* the two are equal it emits nothing and leaves the cache unchanged
C24_SweepNotifiesOnChange ==
    [][SweepGets
         => IF sweep.ping.result # StatusGet(hostStatus, sweep.id)
            THEN /\ fired' = FireStatus(sweep.id, sweep.ping.result)
                 /\ hostStatus' = StatusSet(hostStatus, sweep.id,
                                            sweep.ping.result)
            ELSE /\ fired' = << >>
                 /\ hostStatus' = hostStatus]_vars

\* C24 witness: the loop has told the listeners that the ssh host is online,
\* no refreshStatus call being under way
C24_Witness ==
    /\ fired = FireStatus(1, "online")
    /\ \A r \in Slots : refreshes[r].pc = "idle"
    /\ hostStatus[1] = "online"
    /\ sweep.pc = "loop"

\* C24 witness of the other case: the loop has found the status it had
\* cached and has emitted nothing
C24_QuietWitness ==
    /\ fired = << >>
    /\ \A r \in Slots : refreshes[r].pc = "idle"
    /\ hostStatus[1] = "unknown" /\ hostStatus[2] = "online"
    /\ sweep.pc = "loop" /\ sweep.queue = << >>

-----------------------------------------------------------------------------
(* The result of a probe *)

\* C25: a probe that has returned has returned online or unknown, and the
\* status cache never holds offline
C25_ProbeNeverOffline ==
    /\ \A r \in Slots :
          refreshes[r].ping.pc = "resolved"
             => refreshes[r].ping.result \in {"online", "unknown"}
    /\ sweep.ping.pc = "resolved" => sweep.ping.result \in {"online", "unknown"}
    /\ \A id \in DOMAIN hostStatus : hostStatus[id] # "offline"

\* C25, the two outcomes of the probe of the workbench and the extension:
\* the fetch that settles a probe gives online when it is fulfilled, and
\* unknown when it is the http fetch and is rejected
C25_SshProbeOutcome ==
    [][\A r \in Slots :
         (refreshes[r].ping.pc \in {"https", "http"}
            /\ refreshes'[r].ping.pc = "resolved")
           => \/ refreshes'[r].ping.result = "online"
              \/ /\ refreshes[r].ping.pc = "http"
                 /\ refreshes'[r].ping.result = "unknown"]_vars

-----------------------------------------------------------------------------
(* Properties of the SSH config parser, checked under SpecParser *)

\* line i of the file is a Host line
IsHostLine(lines, i) ==
    lines[i].kind = "match" /\ ToLowerCase(lines[i].key) = "host"

\* the lines of the block that Host line i opens: up to the next Host line
Block(lines, i) ==
    {j \in (i + 1)..Len(lines) : \A k \in (i + 1)..j : ~IsHostLine(lines, k)}

\* the HostName directives of that block
HostNames(lines, i) ==
    {j \in Block(lines, i) :
        lines[j].kind = "match" /\ ToLowerCase(lines[j].key) = "hostname"}

\* a pattern of ssh_config is a wildcard pattern when it holds '*' or '?'
IsWildcard(value) == Includes(value, "*") \/ Includes(value, "?")

\* the entries are those of the Host lines in want, in file order, each
\* with the pattern of its Host line and the last HostName of its block
EmitsExactly(lines, entries, want) ==
    /\ Len(entries) = Cardinality(want)
    /\ \A i \in want :
          LET n == Cardinality({j \in want : j <= i})
              last == CHOOSE j \in HostNames(lines, i) :
                         \A k \in HostNames(lines, i) : k <= j
          IN  /\ entries[n].host = lines[i].value
              /\ entries[n].hostname = lines[last].value

\* C26: the parser emits one entry for each Host line that is no wildcard
\* pattern and whose block holds a HostName directive, in file order, and no
\* other entry; a directive that follows a wildcard Host line or precedes
\* the first Host line goes into no entry
C26_OneEntryPerHostBlock ==
    (call.op = "parseContent" /\ call.pc = "done")
        => LET lines == call.arg.lines
           IN  EmitsExactly(lines, call.arg.entries,
                            {i \in 1..Len(lines) :
                                /\ IsHostLine(lines, i)
                                /\ ~IsWildcard(lines[i].value)
                                /\ HostNames(lines, i) # {}})

\* C26 with '*' as the only wildcard character
C26_OneEntryPerStarFreeBlock ==
    (call.op = "parseContent" /\ call.pc = "done")
        => LET lines == call.arg.lines
           IN  EmitsExactly(lines, call.arg.entries,
                            {i \in 1..Len(lines) :
                                /\ IsHostLine(lines, i)
                                /\ ~Includes(lines[i].value, "*")
                                /\ HostNames(lines, i) # {}})

-----------------------------------------------------------------------------
(* The status cache while hosts are deleted, checked under SpecProbeDelete *)

\* C27: every id that has an entry in the status cache is the id of a host
\* in the registry; in particular a deleteHost(id) that has ended while a
\* probe of id was under way has left no cached status for id
C27_StatusOnlyOfRegistered ==
    \A id \in DOMAIN hostStatus : MapHas(hosts, id)

\* C27, notifications: no step of the prober emits a status notification
\* for an id that is not the id of a host in the registry
C27_NoStatusEventAfterDelete ==
    [][(refreshes' # refreshes \/ sweep' # sweep)
         => \A i \in 1..Len(fired') : MapHas(hosts', fired'[i].hostId)]_vars

-----------------------------------------------------------------------------
(* The status of a host while refreshStatus probes it, under SpecProbe *)

\* C28: while a refreshStatus(id) call awaits its probe and the cached
\* status of id is connecting, a step of the background ping leaves that
\* status connecting and emits no notification for id
C28_SweepKeepsConnecting ==
    [][\A r \in Slots :
         (/\ refreshes[r].pc = "probing"
          /\ refreshes' = refreshes
          /\ StatusGet(hostStatus, refreshes[r].id) = "connecting")
           => /\ StatusGet(hostStatus', refreshes[r].id) = "connecting"
              /\ \A i \in 1..Len(fired') :
                    fired'[i].hostId # refreshes[r].id]_vars

\* C28 for a sweep that reaches the host after the refresh began: the loop
\* skips the host, so the status stays connecting
C28_LaterSweepKeepsConnecting ==
    [][\A r \in Slots :
         (/\ refreshes[r].pc = "probing"
          /\ SweepTakes
          /\ StatusGet(hostStatus, refreshes[r].id) = "connecting")
           => /\ StatusGet(hostStatus', refreshes[r].id) = "connecting"
              /\ fired' = << >>]_vars

-----------------------------------------------------------------------------
(* A failed addHost, checked under Spec *)

\* the persisted host list holds a record whose id is id
PersistedHost(id) == \E i \in 1..Len(storedHosts) : storedHosts[i].id = id

\* C29: when addHost has ended rejected by the secret store, the host is
\* not in the map, has no cached status and is not in the persisted list.
\* Stated for a registry that was empty before the call: no write has
\* failed and the persisted list is empty, so every earlier add was undone
\* by a delete
C29_FailedAddLeavesNothing ==
    (/\ Full /\ call.op = "addHost" /\ call.pc = "rejected"
     /\ storedHosts = << >> /\ writeFailures = 0)
        => /\ ~MapHas(hosts, call.id)
           /\ call.id \notin DOMAIN hostStatus
           /\ ~PersistedHost(call.id)

\* C29, the persisted list: an addHost that ends rejected writes nothing
C29_FailedAddWritesNothing ==
    [][(Full /\ call.op = "addHost" /\ call.pc = "secret"
          /\ call'.pc = "rejected")
         => storedHosts' = storedHosts]_vars

-----------------------------------------------------------------------------
(* C30: the background ping after dispose() *)

\* a step in which _pingAllHosts begins
SweepBegins == sweep.pc = "idle" /\ sweep'.pc = "loop"

\* a step in which the 5 s timeout of the initial ping runs
InitialTimeoutRuns == timers.initial /\ ~timers'.initial

\* a step in which the loop of _pingAllHosts starts the probe of a host
SweepProbes == sweep.pc = "loop" /\ sweep'.pc = "probing"

\* C30: once dispose() has run, no background sweep begins, neither from the
\* interval nor from the initial timeout, and a sweep starts no probe; the
\* status event of such a probe is fired on a disposed emitter
C30_QuietAfterDispose ==
    [][timers.disposed => ~(SweepBegins \/ SweepProbes)]_vars

\* C30, the part about the interval: once dispose() has run, a sweep begins
\* only from the initial timeout, never from the 60 s interval
C30_NoIntervalSweepAfterDispose ==
    [][timers.disposed /\ SweepBegins => InitialTimeoutRuns]_vars

\* C30, the part about the initial sweep: once dispose() has run, the 5 s
\* timeout begins no sweep
C30_NoInitialSweepAfterDispose ==
    [][timers.disposed => ~(SweepBegins /\ InitialTimeoutRuns)]_vars

\* C30, the part about the sweep in flight: a sweep that was under way when
\* dispose() ran starts no further probe
C30_SweepInFlightStops ==
    [][timers.disposed /\ ~timers.initial => ~SweepProbes]_vars

\* dispose() has run and the interval has begun a sweep before it
C30_IntervalWitness == timers.disposed /\ timers.initial /\ sweep.pc = "probing"

====
